---- MODULE Spec2Model ----
(***************************************************************************)
(* A state-machine model of the SwarmX core: the EventBus (event_bus.py),  *)
(* the TaskScheduler (scheduler.py), the Agent runtime (agent.py) and the  *)
(* SwarmEngine lifecycle (engine.py).                                      *)
(*                                                                         *)
(* The program runs on one asyncio loop, so a step of the model is the     *)
(* code one coroutine runs between two suspension points.  The suspension  *)
(* points of the source are: asyncio.gather in _dispatch_event, the        *)
(* queue get of _dispatch_loop, the await of the cancelled dispatch task   *)
(* in stop, asyncio.sleep in _schedule_task, the wait for the agent's      *)
(* asyncio.Lock, and the backend call provider.complete in think.          *)
(*                                                                         *)
(* Strings are sequences of tokens: "task.created" is <<"task",".",        *)
(* "created">>; the tokens "." and "*" are the characters the matching     *)
(* code looks at.                                                          *)
(***************************************************************************)
EXTENDS Integers, Sequences, FiniteSets, TLC

\* ------------------------------------------------------------------ bounds

\* Events published from outside the three components (tests, applications,
\* engine.submit_task callers) in one behaviour.
MaxEvents == 2
\* subscribe calls made by user code (tests, examples) in one behaviour.
MaxUserSubs == 2

\* ------------------------------------------------------------- constants

max_queue_size == 10000
max_history == 1000

LOW == 0
NORMAL == 1
HIGH == 2
CRITICAL == 3
EventPriority == {LOW, NORMAL, HIGH, CRITICAL}

DOT == "."
STAR == "*"
GLOBAL_PATTERN == <<STAR>>

T_TEST == <<"test">>
T_TASK_CREATED == <<"task", DOT, "created">>
T_TASK_COMPLETED == <<"task", DOT, "completed">>
T_TASK_FAILED == <<"task", DOT, "failed">>
T_AGENT_ERROR == <<"agent", DOT, "error">>
P_TASK_ALL == <<"task", DOT, STAR>>
P_AGENT_RESPONSE_ALL == <<"agent", DOT, "response", DOT, STAR>>

NoTask == "none"
NoEvent == [event_id |-> 0]
NoPayload == [agent_id |-> "", event_topic |-> <<>>, error |-> "", text |-> "",
              source_event |-> 0]

\* ------------------------------------------------------- string helpers

\* s[:n]
Prefix(s, n) == SubSeq(s, 1, n)

\* s.startswith(p)
StartsWith(s, p) == Len(p) <= Len(s) /\ Prefix(s, Len(p)) = p

\* s.endswith(p)
EndsWith(s, p) == Len(p) <= Len(s) /\ SubSeq(s, Len(s) - Len(p) + 1, Len(s)) = p

\* Positions of the separator in s.
DotPositions(s) == {i \in 1..Len(s) : s[i] = DOT}

\* len(topic.split(".")): one more than the number of separators.
NumParts(s) == Cardinality(DotPositions(s)) + 1

\* The position just before the k-th separator of s (Len(s) when s has fewer
\* than k separators): ".".join(topic.split(".")[:k]) is the prefix of s
\* that ends there.
RECURSIVE EndOfPart(_, _, _)
EndOfPart(s, k, from) ==
    IF from > Len(s) THEN Len(s)
    ELSE IF s[from] = DOT
         THEN IF k = 1 THEN from - 1 ELSE EndOfPart(s, k - 1, from + 1)
         ELSE EndOfPart(s, k, from + 1)

\* ".".join(topic_parts[: i + 1]) for the 0-based index i.
JoinParts(s, i) == Prefix(s, EndOfPart(s, i + 1, 1))


\* --------------------------------------------------------------- state

VARIABLES
    subscriptions,         \* EventBus._subscriptions: the dict, in insertion order
    global_subscriptions,  \* EventBus._global_subscriptions
    event_queue,           \* EventBus._event_queue
    bus_running,           \* EventBus._running
    dispatch_task,         \* EventBus._dispatch_task: where the loop task is
    stop_pc,               \* where the caller of EventBus.stop is
    passes,                \* the _dispatch_event call of the loop and of stop
    event_history,         \* EventBus._event_history
    stats,                 \* EventBus._stats
    next_event_id,         \* number of Event objects created so far
    user_subs,             \* number of subscribe calls made by user code
    ev,                    \* per event: what has happened to it (history variable)
    pub_log,               \* every event published so far, in order (history variable)
    stop_mark,             \* events created when stop() was last called (history variable)
    putters                \* asyncio.Queue._putters and the waiters a get has woken

busVars == <<subscriptions, global_subscriptions, event_queue, bus_running,
             dispatch_task, stop_pc, passes, event_history, stats,
             next_event_id, user_subs, ev, pub_log,
             stop_mark, putters>>

VARIABLES
    tasks,                 \* TaskScheduler._tasks: task_id -> Task ("absent": no such key)
    task_order,            \* the insertion order of TaskScheduler._tasks
    sleepers,              \* tasks whose _schedule_task, called from submit, is in asyncio.sleep
    sched_running,         \* TaskScheduler._running
    cancel_ret             \* what the last call of TaskScheduler.cancel returned ("none": no call)

schedVars == <<tasks, task_order, sleepers, sched_running, cancel_ret>>

VARIABLES
    agent_cfg,             \* SwarmEngine._agents: the AgentConfig of each agent ("added" or not)
    agent_state,           \* Agent.state
    agent_provider,        \* Agent._provider is bound
    message_history,       \* Agent._message_history
    processing_lock,       \* Agent._processing_lock
    backend_calls,         \* calls of provider.complete per agent (history variable)
    engine_running,        \* SwarmEngine._running
    engine_pc,             \* where the caller of SwarmEngine.start / stop is
    provider_registry,     \* SwarmEngine.provider_registry: _providers and _factory
    registry_ret           \* the last call of the registry and how it ended (history variable)

agentVars == <<agent_cfg, agent_state, agent_provider, message_history,
               processing_lock, backend_calls>>
registryVars == <<provider_registry, registry_ret>>
engineVars == <<engine_running, engine_pc, registryVars>>

vars == <<busVars, schedVars, agentVars, engineVars>>

TaskIds == {"t1", "t2"}
\* The task ids of the cascade of dependents: t1 with the dependents t2 and
\* t3, and t4, a task of its own.
AllTaskIds == TaskIds \cup {"t3", "t4"}
AgentIds == {"a1", "a2"}

\* Event ids: the events published from outside, and one event per task and
\* per agent published by the scheduler and by the agents.
MaxEventIds == MaxEvents + Cardinality(TaskIds) + Cardinality(AgentIds)
EventIds == 1..MaxEventIds
Dispatchers == {"loop", "stop"}

\* User code: two callbacks a test or an application registers.
UserHandlers == {"h1", "h2"}
UserPatterns == {T_TEST}
\* The priority each of them is registered with.
UserPriority(h) == IF h = "h1" THEN HIGH ELSE NORMAL

\* ------------------------------------------------------- Event, _Subscription

\* Event(topic, payload, source): payload is the task_id and whether a
\* non-empty "content"/"message" text is present; priority has its default.
Event(id, topic, task_id, content, source) ==
    [event_id |-> id, topic |-> topic, task_id |-> task_id,
     content |-> content, source |-> source, priority |-> NORMAL,
     payload |-> NoPayload]

\* _Subscription(handler, subscriber_id, topic_pattern, priority)
Subscription(handler, subscriber_id, topic_pattern, priority) ==
    [handler |-> handler, subscriber_id |-> subscriber_id,
     topic_pattern |-> topic_pattern, priority |-> priority]

\* A handler is a bound method or a user callback: its kind and its owner.
Handler(kind, owner) == [kind |-> kind, owner |-> owner]

\* ------------------------------------------------------- the dict of lists

RECURSIVE Flatten(_)
Flatten(ss) == IF ss = <<>> THEN <<>> ELSE Head(ss) \o Flatten(Tail(ss))

\* topic in self._subscriptions
HasKey(d, p) == \E i \in 1..Len(d) : d[i].pattern = p

\* self._subscriptions[topic] (the empty list when the key is absent)
Lookup(d, p) ==
    IF HasKey(d, p)
    THEN d[CHOOSE i \in 1..Len(d) : d[i].pattern = p].subs
    ELSE <<>>

\* EventBus.subscribe on the two tables
SubscribeTopic(d, sub) ==
    IF HasKey(d, sub.topic_pattern)
    THEN [i \in 1..Len(d) |->
            IF d[i].pattern = sub.topic_pattern
            THEN [d[i] EXCEPT !.subs = Append(@, sub)]
            ELSE d[i]]
    ELSE Append(d, [pattern |-> sub.topic_pattern, subs |-> <<sub>>])

SubscribeGlobal(g, sub) == Append(g, sub)

IsGlobal(pattern) == pattern = GLOBAL_PATTERN

\* An unsubscribe that stops at the first pattern under which the id is found.
UnsubscribeTopicsFirstPattern(d, sid) ==
    LET holds(i) == \E k \in 1..Len(d[i].subs) : d[i].subs[k].subscriber_id = sid
        filtered == [i \in 1..Len(d) |->
                        IF \E j \in 1..(i - 1) : holds(j)
                        THEN d[i]
                        ELSE [d[i] EXCEPT !.subs =
                                 SelectSeq(@, LAMBDA s : s.subscriber_id # sid)]]
    IN SelectSeq(filtered, LAMBDA e : e.subs # <<>>)

\* EventBus.unsubscribe on the two tables, and the count it returns
UnsubscribeTopics(d, sid) ==
    LET filtered == [i \in 1..Len(d) |->
                        [d[i] EXCEPT !.subs = SelectSeq(@, LAMBDA s : s.subscriber_id # sid)]]
    IN SelectSeq(filtered, LAMBDA e : e.subs # <<>>)

\* An unsubscribe that leaves the global subscriptions alone.
UnsubscribeGlobalKeepsAll(g, sid) == g

UnsubscribeGlobal(g, sid) == SelectSeq(g, LAMBDA s : s.subscriber_id # sid)

SubscriptionCount(d, g) == Len(Flatten([i \in 1..Len(d) |-> d[i].subs])) + Len(g)

UnsubscribeCount(d, g, sid) ==
    SubscriptionCount(d, g)
        - SubscriptionCount(UnsubscribeTopics(d, sid), UnsubscribeGlobal(g, sid))

\* ------------------------------------------------------- matching

WILDCARD_SUFFIX == <<DOT, STAR>>

\* An exact match that takes only the first registration of the topic.
ExactMatchesFirst(d, topic) ==
    IF Lookup(d, topic) = <<>> THEN <<>> ELSE <<Head(Lookup(d, topic))>>

\* The handlers _dispatch_event collects, before sorting.
ExactMatches(d, topic) == Lookup(d, topic)

\* A wildcard key for every part of the topic, the last one included.
WildcardOfEveryPart(topic, i) == JoinParts(topic, i) \o WILDCARD_SUFFIX

\* for i in range(len(topic_parts)): the "a.b.*" keys of the proper prefixes
WildcardOf(topic, i) ==
    IF i < NumParts(topic) - 1 THEN JoinParts(topic, i) \o WILDCARD_SUFFIX ELSE <<>>

WildcardMatches(d, topic) ==
    Flatten([k \in 1..NumParts(topic) |->
                IF WildcardOf(topic, k - 1) # <<>>
                THEN Lookup(d, WildcardOf(topic, k - 1))
                ELSE <<>>])

\* for pattern, subs in self._subscriptions.items(): the "parent wildcard" pass
EnumeratedWildcards(topic) ==
    {JoinParts(topic, k - 1) \o WILDCARD_SUFFIX : k \in 1..NumParts(topic)}

ParentMatches(d, topic) ==
    Flatten([i \in 1..Len(d) |->
                IF /\ EndsWith(d[i].pattern, WILDCARD_SUFFIX)
                   /\ StartsWith(topic,
                                 Prefix(d[i].pattern, Len(d[i].pattern) - 2) \o <<DOT>>)
                   /\ d[i].pattern \notin EnumeratedWildcards(topic)
                THEN d[i].subs
                ELSE <<>>])

\* The handlers left in the order in which they were collected.
SortByPriorityUnsorted(hs) == hs

\* handlers.sort(key=priority, reverse=True): a stable sort
SortByPriority(hs) ==
    SelectSeq(hs, LAMBDA s : s.priority = CRITICAL)
        \o SelectSeq(hs, LAMBDA s : s.priority = HIGH)
        \o SelectSeq(hs, LAMBDA s : s.priority = NORMAL)
        \o SelectSeq(hs, LAMBDA s : s.priority = LOW)

MatchingHandlers(d, g, topic) ==
    SortByPriority(ExactMatches(d, topic) \o WildcardMatches(d, topic)
                       \o ParentMatches(d, topic) \o g)


\* ------------------------------------------------------- dispatch passes

\* What has become of an event (history): its fate ("new", "queued",
\* "inflight", "dispatched", "aborted", "cancelled"), the handlers matched,
\* how many of them have finished and raised, and whether a handler of the
\* scheduler has run for it.
EventFate(fate, matched) ==
    [fate |-> fate, matched |-> matched, finished |-> 0, raised |-> 0,
     scheduler_ran |-> FALSE]

\* One coroutine of asyncio.gather: _safe_call(sub.handler, event, ...).
\* pc: "start" (created, not yet run), "suspended" (a user callback at an
\* await), "sleep" (_schedule_task in asyncio.sleep), "lockwait" (waiting for
\* the agent's lock), "backend" (in provider.complete), "done" (returned),
\* "escaped" (raised out of _safe_call), "cancelled".
\* cur, rest, n: the task _check_dependents is scheduling, the tasks its for
\* loop has still to visit, and the size of _tasks when the loop began.
HandlerCall(sub) ==
    [sub |-> sub, pc |-> "start", cur |-> NoTask, rest |-> <<>>, n |-> 0]

NoPass == [event |-> NoEvent, handlers |-> <<>>]

NewPass(event, hs) ==
    [event |-> event, handlers |-> [i \in 1..Len(hs) |-> HandlerCall(hs[i])]]

Active(d) == passes[d].event # NoEvent

Finished(h) == h.pc \in {"done", "escaped", "cancelled"}

\* self._event_history.append(event) and the trim to _max_history
HistoryAppend(h, e) ==
    LET h2 == Append(h, e)
    IN IF Len(h2) > max_history
       THEN SubSeq(h2, Len(h2) - max_history + 1, Len(h2))
       ELSE h2

\* A _safe_call without its "except Exception": the handler's exception
\* leaves the coroutine and nothing is counted.
SafeCallNoCatch(outcome) ==
    [pc |-> IF outcome = "raise" THEN "escaped" ELSE "done", errors |-> 0]

\* _safe_call: what becomes of the coroutine and of the error counter when
\* the handler returned ("ok") or raised an Exception ("raise").
SafeCall(outcome) ==
    [pc |-> "done", errors |-> IF outcome = "raise" THEN 1 ELSE 0]

\* asyncio.gather(*tasks) has a result: every child returned, or one raised.
GatherDone(hs) ==
    \/ \A i \in 1..Len(hs) : hs[i].pc = "done"
    \/ \E i \in 1..Len(hs) : hs[i].pc = "escaped"

GatherRaised(hs) == \E i \in 1..Len(hs) : hs[i].pc = "escaped"

NumDone(hs) == Cardinality({i \in 1..Len(hs) : hs[i].pc = "done"})

\* A handler of the scheduler is among the coroutines of a gather and has run
\* at least its first step.
SchedulerRan(hs) ==
    \E i \in 1..Len(hs) :
        hs[i].sub.subscriber_id = "scheduler" /\ hs[i].pc # "start"

\* hist[start:] for a Python list: a negative start counts from the end and
\* is clamped to the beginning; a start of 0 is the beginning.
SliceFrom(hist, start) ==
    LET from == IF start < 0
                THEN (IF Len(hist) + start < 0 THEN 0 ELSE Len(hist) + start)
                ELSE (IF start > Len(hist) THEN Len(hist) ELSE start)
    IN SubSeq(hist, from + 1, Len(hist))

\* EventBus.recent_events(limit): self._event_history[-limit:]
RecentEvents(hist, limit) == SliceFrom(hist, 0 - limit)

\* One waiter of asyncio.Queue.put: the publish call of event e, suspended
\* because the queue was full.  woken: a get has set the waiter's future and
\* taken it off _putters; the call has still to resume.
Putter(e) == [event |-> e, woken |-> FALSE]

\* Queue._wakeup_next(self._putters), called by every get: the first waiter
\* that is still waiting is woken.
RECURSIVE WakeupNext(_)
WakeupNext(p) ==
    IF p = <<>> THEN <<>>
    ELSE IF ~Head(p).woken THEN <<[Head(p) EXCEPT !.woken = TRUE]>> \o Tail(p)
    ELSE <<Head(p)>> \o WakeupNext(Tail(p))

\* n gets in a row
RECURSIVE WakeupTimes(_, _)
WakeupTimes(p, n) == IF n = 0 THEN p ELSE WakeupTimes(WakeupNext(p), n - 1)

\* The straight-line part of stop()'s drain loop: events without handlers are
\* dispatched without suspending; the first event with handlers starts a
\* gather.  q, hist, disp, e: queue, history, dispatched counter, ev.
RECURSIVE Drain(_, _, _, _)
Drain(q, hist, disp, e) ==
    IF q = <<>>
    THEN [queue |-> q, history |-> hist, dispatched |-> disp, ev |-> e,
          pass |-> NoPass]
    ELSE LET event == Head(q)
             hs == MatchingHandlers(subscriptions, global_subscriptions, event.topic)
         IN IF hs = <<>>
            THEN Drain(Tail(q), HistoryAppend(hist, event), disp + 1,
                       [e EXCEPT ![event.event_id] =
                           EventFate("dispatched", 0)])
            ELSE [queue |-> Tail(q), history |-> HistoryAppend(hist, event),
                  dispatched |-> disp,
                  ev |-> [e EXCEPT ![event.event_id] =
                             EventFate("inflight", Len(hs))],
                  pass |-> NewPass(event, hs)]


\* ------------------------------------------------------- publishing

\* The part of the state one publish call changes.
PubState ==
    [queue |-> event_queue, published |-> stats.published,
     next_id |-> next_event_id, ev |-> ev, log |-> pub_log]

\* A put that places the event before the queued events of lower priority.
PutByPriority(q, e) ==
    SelectSeq(q, LAMBDA x : x.priority >= e.priority) \o <<e>>
        \o SelectSeq(q, LAMBDA x : x.priority < e.priority)

\* self._event_queue.put(event) on an asyncio.Queue with room: at the end
Put(q, e) == Append(q, e)

\* EventBus.publish(e) on b, e being the Event created next
PublishEvent(b, e) ==
    [queue |-> Put(b.queue, e), published |-> b.published + 1,
     next_id |-> e.event_id,
     ev |-> [x \in DOMAIN b.ev |->
               IF x = e.event_id THEN EventFate("queued", 0)
               ELSE b.ev[x]],
     log |-> Append(b.log, e)]

\* EventBus.publish of a new Event on b (the queue has room: put does not wait)
Publish(b, topic, task_id, content, source) ==
    PublishEvent(b, Event(b.next_id + 1, topic, task_id, content, source))

\* The publish calls of one step fit the model's budget of events and the queue.
CanPublish(b) == b.next_id <= MaxEventIds /\ Len(b.queue) <= max_queue_size

\* Events published from outside so far.
External(e) == e.source \in {"user", "engine"}
ExternalCount == Len(SelectSeq(pub_log, External))

\* ------------------------------------------------------- the agent's lock

FreeLock == [locked |-> FALSE, owner |-> <<>>, waiters |-> <<>>]

\* asyncio.Lock.release(): unlocked; the first waiter is woken (it is the one
\* that may take the lock next).
Release(l) == [l EXCEPT !.locked = FALSE, !.owner = <<>>]

\* What the cancellation of the coroutines of dispatcher d leaves of a lock and
\* of the state of agent a: the holder's "async with" releases and its
\* "finally" runs; a waiter leaves the queue of waiters.
LockAfterCancel(a, d) ==
    LET l == processing_lock[a]
    IN [locked |-> l.locked /\ l.owner[1] # d,
        owner |-> IF l.locked /\ l.owner[1] # d THEN l.owner ELSE <<>>,
        waiters |-> SelectSeq(l.waiters, LAMBDA w : w[1] # d)]

StateAfterCancel(a, d) ==
    LET l == processing_lock[a]
    IN IF l.locked /\ l.owner[1] = d /\ agent_state[a] = "processing"
       THEN "idle"
       ELSE agent_state[a]

\* ------------------------------------------------------- EventBus lifecycle

\* EventBus.start (the caller has checked "if self._running: return")
BusStartBody ==
    /\ bus_running' = TRUE
    /\ dispatch_task' = "get"
    /\ stop_pc' = "idle"

\* stop(), from the head of its while loop to its next suspension point or
\* to its return.  r is the Drain of the queue.
StopFrom(r) ==
    /\ event_queue' = r.queue
    /\ putters' = WakeupTimes(putters, Len(event_queue) - Len(r.queue))
    /\ event_history' = r.history
    /\ stats' = [stats EXCEPT !.dispatched = r.dispatched]
    /\ IF r.pass # NoPass
       THEN \* await self._dispatch_event(event)
            /\ passes' = [passes EXCEPT !["stop"] = r.pass]
            /\ ev' = r.ev
            /\ stop_pc' = "drain"
            /\ UNCHANGED <<dispatch_task, agent_state, processing_lock>>
       ELSE \* self._dispatch_task.cancel(); await self._dispatch_task
            /\ passes' = [d \in Dispatchers |-> NoPass]
            /\ ev' = IF Active("loop")
                     THEN [r.ev EXCEPT ![passes["loop"].event.event_id].fate = "cancelled",
                                       ![passes["loop"].event.event_id].finished =
                                            NumDone(passes["loop"].handlers),
                                       ![passes["loop"].event.event_id].scheduler_ran =
                                            SchedulerRan(passes["loop"].handlers)]
                     ELSE r.ev
            /\ agent_state' = [a \in AgentIds |-> StateAfterCancel(a, "loop")]
            /\ processing_lock' = [a \in AgentIds |-> LockAfterCancel(a, "loop")]
            /\ dispatch_task' = "none"
            /\ stop_pc' = "returned"

\* EventBus.stop (the caller has checked "if not self._running: return")
BusStopBody ==
    /\ bus_running' = FALSE
    /\ stop_mark' = next_event_id
    /\ StopFrom(Drain(event_queue, event_history, stats.dispatched, ev))

\* A test or an application calls bus.start() / bus.stop() itself.
BusStart ==
    /\ ~bus_running
    /\ stop_pc \in {"idle", "returned"}
    /\ BusStartBody
    /\ UNCHANGED <<subscriptions, global_subscriptions, event_queue, passes,
                   event_history, stats, next_event_id, user_subs, ev,
                   pub_log, stop_mark, putters>>
    /\ UNCHANGED <<schedVars, agentVars, engineVars>>

BusStop ==
    /\ bus_running
    /\ stop_pc = "idle"
    /\ BusStopBody
    /\ UNCHANGED <<subscriptions, global_subscriptions, next_event_id,
                   user_subs, pub_log>>
    /\ UNCHANGED <<schedVars, agent_cfg, agent_provider, message_history,
                   backend_calls, engineVars>>

\* ------------------------------------------------------- _dispatch_loop

\* "while self._running" after an event has been dispatched or a wait timed out
LoopNext == IF bus_running THEN "get" ELSE "done"

\* event = await wait_for(self._event_queue.get()); _dispatch_event up to gather
LoopDequeue ==
    /\ dispatch_task = "get"
    /\ event_queue # <<>>
    /\ LET event == Head(event_queue)
           hs == MatchingHandlers(subscriptions, global_subscriptions, event.topic)
       IN /\ event_queue' = Tail(event_queue)
          /\ putters' = WakeupNext(putters)
          /\ event_history' = HistoryAppend(event_history, event)
          /\ IF hs = <<>>
             THEN /\ stats' = [stats EXCEPT !.dispatched = @ + 1]
                  /\ ev' = [ev EXCEPT ![event.event_id] =
                               EventFate("dispatched", 0)]
                  /\ dispatch_task' = LoopNext
                  /\ UNCHANGED passes
             ELSE /\ passes' = [passes EXCEPT !["loop"] = NewPass(event, hs)]
                  /\ ev' = [ev EXCEPT ![event.event_id] =
                               EventFate("inflight", Len(hs))]
                  /\ dispatch_task' = "dispatch"
                  /\ UNCHANGED stats
    /\ UNCHANGED <<subscriptions, global_subscriptions, bus_running, stop_pc,
                   next_event_id, user_subs, pub_log, stop_mark>>
    /\ UNCHANGED <<schedVars, agentVars, engineVars>>

\* wait_for times out and "while self._running" is false: the loop returns
LoopExit ==
    /\ dispatch_task = "get"
    /\ ~bus_running
    /\ dispatch_task' = "done"
    /\ UNCHANGED <<subscriptions, global_subscriptions, event_queue, bus_running,
                   stop_pc, passes, event_history, stats, next_event_id,
                   user_subs, ev, pub_log, stop_mark, putters>>
    /\ UNCHANGED <<schedVars, agentVars, engineVars>>

\* The gather of a _dispatch_event has its result: back in _dispatch_event.
\* When a child raised, gather raises: the loop counts an error and goes on
\* ("except Exception" in _dispatch_loop), and stop() raises to its caller.
PassFinish(d) ==
    /\ Active(d)
    /\ GatherDone(passes[d].handlers)
    /\ LET p == passes[d]
           raised == GatherRaised(p.handlers)
           ev2 == [ev EXCEPT ![p.event.event_id].fate =
                                  IF raised THEN "aborted" ELSE "dispatched",
                             ![p.event.event_id].finished = NumDone(p.handlers),
                             ![p.event.event_id].scheduler_ran = SchedulerRan(p.handlers)]
           disp == IF raised THEN stats.dispatched ELSE stats.dispatched + 1
       IN IF d = "loop"
          THEN /\ passes' = [passes EXCEPT ![d] = NoPass]
               /\ ev' = ev2
               /\ stats' = [stats EXCEPT !.dispatched = disp,
                                         !.errors = IF raised THEN @ + 1 ELSE @]
               /\ dispatch_task' = LoopNext
               /\ UNCHANGED <<event_queue, event_history, stop_pc, agent_state,
                              processing_lock, putters>>
          ELSE IF raised
          THEN /\ passes' = [passes EXCEPT ![d] = NoPass]
               /\ ev' = ev2
               /\ stop_pc' = "raised"
               /\ UNCHANGED <<event_queue, event_history, stats, dispatch_task,
                              agent_state, processing_lock, putters>>
          ELSE StopFrom(Drain(event_queue, event_history, disp, ev2))
    /\ UNCHANGED <<subscriptions, global_subscriptions, bus_running, next_event_id,
                   user_subs, pub_log, stop_mark>>
    /\ UNCHANGED <<schedVars, agent_cfg, agent_provider, message_history,
                   backend_calls, engineVars>>


\* ------------------------------------------------------- handlers: common

HandlerAt(d, i) == passes[d].handlers[i]

IsCall(d, i, kind) ==
    /\ Active(d)
    /\ i \in 1..Len(passes[d].handlers)
    /\ HandlerAt(d, i).sub.handler.kind = kind

\* The tasks of a gather start in the order in which gather created them.
StartsInOrder(d, i) == \A j \in 1..(i - 1) : HandlerAt(d, j).pc # "start"

\* A coroutine of the pass can take its first step.
CanStart(d, i) == HandlerAt(d, i).pc = "start" /\ StartsInOrder(d, i)

\* The pass with its i-th coroutine ended by _safe_call.
Ended(d, i, outcome) ==
    [passes EXCEPT ![d].handlers[i].pc = SafeCall(outcome).pc]

Raises(outcome) == IF outcome = "raise" THEN 1 ELSE 0

\* ------------------------------------------------------- user code on the bus

\* bus.subscribe(pattern, h, subscriber_id=h, priority=UserPriority(h))
UserSubscribe(h, pattern) ==
    /\ user_subs < MaxUserSubs
    /\ user_subs' = user_subs + 1
    /\ LET sub == Subscription(Handler("user", h), h, pattern, UserPriority(h))
       IN IF IsGlobal(pattern)
          THEN /\ global_subscriptions' = SubscribeGlobal(global_subscriptions, sub)
               /\ UNCHANGED subscriptions
          ELSE /\ subscriptions' = SubscribeTopic(subscriptions, sub)
               /\ UNCHANGED global_subscriptions
    /\ UNCHANGED <<event_queue, bus_running, dispatch_task, stop_pc, passes,
                   event_history, stats, next_event_id, ev,
                   pub_log, stop_mark, putters>>
    /\ UNCHANGED <<schedVars, agentVars, engineVars>>

\* bus.unsubscribe(sid) from user code
Unsubscribe(sid) ==
    /\ subscriptions' = UnsubscribeTopics(subscriptions, sid)
    /\ global_subscriptions' = UnsubscribeGlobal(global_subscriptions, sid)
    /\ UNCHANGED <<event_queue, bus_running, dispatch_task, stop_pc, passes,
                   event_history, stats, next_event_id, user_subs, ev,
                   pub_log, stop_mark, putters>>
    /\ UNCHANGED <<schedVars, agentVars, engineVars>>

\* The variables a step that only publishes changes, from the PubState b.
Published(b) ==
    /\ CanPublish(b)
    /\ event_queue' = b.queue
    /\ next_event_id' = b.next_id
    /\ ev' = b.ev
    /\ pub_log' = b.log

\* await bus.publish(Event(topic, priority=priority)) from user code
UserPublish(topic, priority) ==
    /\ ExternalCount < MaxEvents
    /\ Published(PublishEvent(PubState,
            [Event(next_event_id + 1, topic, NoTask, FALSE, "user")
                EXCEPT !.priority = priority]))
    /\ stats' = [stats EXCEPT !.published = @ + 1]
    /\ UNCHANGED <<subscriptions, global_subscriptions, bus_running, dispatch_task,
                   stop_pc, passes, event_history, user_subs,
                   stop_mark, putters>>
    /\ UNCHANGED <<schedVars, agentVars, engineVars>>

\* Queue.full() never true: a queue that takes any number of events.
FullNever(q, maxsize) == FALSE

\* Queue.full() of an asyncio.Queue(maxsize): maxsize <= 0 is "no limit"
Full(q, maxsize) == maxsize > 0 /\ Len(q) >= maxsize

\* bus.publish_nowait(Event(topic)) from user code, on EventBus(maxsize):
\* put_nowait raises QueueFull before "published += 1" is reached.
PublishNowait(maxsize, topic) ==
    /\ next_event_id < MaxEventIds
    /\ LET e == Event(next_event_id + 1, topic, NoTask, FALSE, "user")
       IN IF Full(event_queue, maxsize)
          THEN /\ next_event_id' = e.event_id
               /\ ev' = [ev EXCEPT ![e.event_id] = EventFate("refused", 0)]
               /\ UNCHANGED <<event_queue, stats, pub_log>>
          ELSE /\ Published(PublishEvent(PubState, e))
               /\ stats' = [stats EXCEPT !.published = @ + 1]
    /\ UNCHANGED <<subscriptions, global_subscriptions, bus_running, dispatch_task,
                   stop_pc, passes, event_history, user_subs,
                   stop_mark, putters>>
    /\ UNCHANGED <<schedVars, agentVars, engineVars>>

\* await bus.publish(Event(topic)) from user code, on EventBus(maxsize), up to
\* its return or to the await of a waiter in Queue.put ("while self.full()").
PublishPut(maxsize, topic) ==
    /\ next_event_id < MaxEventIds
    /\ LET e == Event(next_event_id + 1, topic, NoTask, FALSE, "user")
       IN IF Full(event_queue, maxsize)
          THEN /\ next_event_id' = e.event_id
               /\ ev' = [ev EXCEPT ![e.event_id] = EventFate("putting", 0)]
               /\ putters' = Append(putters, Putter(e))
               /\ UNCHANGED <<event_queue, stats, pub_log>>
          ELSE /\ Published(PublishEvent(PubState, e))
               /\ stats' = [stats EXCEPT !.published = @ + 1]
               /\ UNCHANGED putters
    /\ UNCHANGED <<subscriptions, global_subscriptions, bus_running, dispatch_task,
                   stop_pc, passes, event_history, user_subs,
                   stop_mark>>
    /\ UNCHANGED <<schedVars, agentVars, engineVars>>

\* p without its i-th element
Without(p, i) == SubSeq(p, 1, i - 1) \o SubSeq(p, i + 1, Len(p))

\* The publish call of putters[i] resumes after a get has woken it: it waits
\* again when the queue is full again, else put_nowait and "published += 1".
PutResume(maxsize, i) ==
    /\ i \in 1..Len(putters)
    /\ putters[i].woken
    /\ LET e == putters[i].event
       IN IF Full(event_queue, maxsize)
          THEN /\ putters' = Append(Without(putters, i), Putter(e))
               /\ UNCHANGED <<event_queue, stats, pub_log, ev, next_event_id>>
          ELSE /\ putters' = Without(putters, i)
               /\ Published([PublishEvent(PubState, e) EXCEPT !.next_id = next_event_id])
               /\ stats' = [stats EXCEPT !.published = @ + 1]
    /\ UNCHANGED <<subscriptions, global_subscriptions, bus_running, dispatch_task,
                   stop_pc, passes, event_history, user_subs,
                   stop_mark>>
    /\ UNCHANGED <<schedVars, agentVars, engineVars>>

\* A user callback runs from its start to an await of its own.
UserHandlerSuspend(d, i) ==
    /\ IsCall(d, i, "user")
    /\ CanStart(d, i)
    /\ passes' = [passes EXCEPT ![d].handlers[i].pc = "suspended"]
    /\ UNCHANGED <<subscriptions, global_subscriptions, event_queue, bus_running,
                   dispatch_task, stop_pc, event_history, stats, next_event_id,
                   user_subs, ev, pub_log, stop_mark, putters>>
    /\ UNCHANGED <<schedVars, agentVars, engineVars>>

\* A user callback runs to its end: it returns or raises into _safe_call.
UserHandlerEnd(d, i, outcome) ==
    /\ IsCall(d, i, "user")
    /\ CanStart(d, i) \/ HandlerAt(d, i).pc = "suspended"
    /\ passes' = Ended(d, i, outcome)
    /\ stats' = [stats EXCEPT !.errors = @ + SafeCall(outcome).errors]
    /\ ev' = [ev EXCEPT ![passes[d].event.event_id].raised = @ + Raises(outcome)]
    /\ UNCHANGED <<subscriptions, global_subscriptions, event_queue, bus_running,
                   dispatch_task, stop_pc, event_history, next_event_id,
                   user_subs, pub_log, stop_mark, putters>>
    /\ UNCHANGED <<schedVars, agentVars, engineVars>>

\* ------------------------------------------------------- TaskScheduler

\* Task(task_id, depends_on, delay_seconds, ...): status PENDING, target_topic
\* "task.created"; content: the payload has a non-empty "content" text.
Task(depends_on, delay_seconds, content) ==
    [status |-> "pending", depends_on |-> depends_on,
     delay_seconds |-> delay_seconds, target_topic |-> T_TASK_CREATED,
     content |-> content]

AbsentTask == [status |-> "absent"]

\* self._tasks.get(task_id)
TaskGet(ts, id) == IF id \in DOMAIN ts THEN ts[id] ELSE AbsentTask

Known(ts, id) == TaskGet(ts, id).status # "absent"

\* A _can_schedule that only asks for every dependency to be a known task.
CanScheduleAnyKnownDep(ts, t) ==
    \A dep \in ts[t].depends_on : Known(ts, dep)

\* TaskScheduler._can_schedule
CanSchedule(ts, t) ==
    \A dep \in ts[t].depends_on :
        Known(ts, dep) /\ TaskGet(ts, dep).status = "completed"

\* Event(topic=task.target_topic, payload={"task_id": ..., "content": ...},
\*       source="scheduler") published by _schedule_task
PublishTask(b, ts, t) ==
    Publish(b, ts[t].target_topic, t, ts[t].content, "scheduler")

\* _schedule_task up to its sleep or to its end.  Returns the tasks, the
\* PubState and whether the coroutine is now in asyncio.sleep.
ScheduleTask(ts, b, t) ==
    IF ts[t].status = "cancelled"
    THEN [tasks |-> ts, pub |-> b, sleeping |-> FALSE]
    ELSE IF ts[t].delay_seconds > 0
    THEN [tasks |-> [ts EXCEPT ![t].status = "scheduled"], pub |-> b,
          sleeping |-> TRUE]
    ELSE [tasks |-> [ts EXCEPT ![t].status = "running"],
          pub |-> PublishTask(b, ts, t), sleeping |-> FALSE]

\* _schedule_task after its sleep: RUNNING and the publish.
ScheduleTaskWake(ts, b, t) ==
    [tasks |-> [ts EXCEPT ![t].status = "running"], pub |-> PublishTask(b, ts, t)]

\* A test of the for loop that does not ask for the task to be PENDING.
IsReadyDependentAnyStatus(ts, t, completed) ==
    /\ completed \in ts[t].depends_on
    /\ CanSchedule(ts, t)

\* The test of the for loop of _check_dependents
IsReadyDependent(ts, t, completed) ==
    /\ ts[t].status = "pending"
    /\ completed \in ts[t].depends_on
    /\ CanSchedule(ts, t)

\* The for loop of _check_dependents over the tasks still to visit (rest), up
\* to its end or to the sleep of a _schedule_task.  cur is the task whose
\* _schedule_task sleeps (NoTask at the end of the loop).
RECURSIVE CheckDependents(_, _, _, _)
CheckDependents(ts, b, completed, rest) ==
    IF rest = <<>>
    THEN [tasks |-> ts, pub |-> b, cur |-> NoTask, rest |-> <<>>]
    ELSE LET t == Head(rest)
         IN IF IsReadyDependent(ts, t, completed)
            THEN LET r == ScheduleTask(ts, b, t)
                 IN IF r.sleeping
                    THEN [tasks |-> r.tasks, pub |-> r.pub, cur |-> t,
                          rest |-> Tail(rest)]
                    ELSE CheckDependents(r.tasks, r.pub, completed, Tail(rest))
            ELSE CheckDependents(ts, b, completed, Tail(rest))

\* A step that changes the PubState to b: the bus variables it sets.
PublishedAll(b) ==
    /\ Published(b)
    /\ stats' = [stats EXCEPT !.published = b.published]

\* TaskScheduler.submit(Task(task_id=t, ...)), task ids being distinct
Submit(t, depends_on, delay_seconds, content) ==
    /\ ~Known(tasks, t)
    /\ LET ts == [tasks EXCEPT ![t] = Task(depends_on, delay_seconds, content)]
           r == IF CanSchedule(ts, t)
                THEN ScheduleTask(ts, PubState, t)
                ELSE [tasks |-> ts, pub |-> PubState, sleeping |-> FALSE]
       IN /\ tasks' = r.tasks
          /\ task_order' = Append(task_order, t)
          /\ sleepers' = IF r.sleeping THEN sleepers \cup {t} ELSE sleepers
          /\ PublishedAll(r.pub)
    /\ UNCHANGED <<subscriptions, global_subscriptions, bus_running, dispatch_task,
                   stop_pc, passes, event_history, user_subs, stop_mark, putters>>
    /\ UNCHANGED <<sched_running, cancel_ret, agentVars, engineVars>>

\* submit_many over the tasks of a batch, one submit after the other; r holds
\* the tasks, the PubState, the insertion order and the ids returned so far.
\* No task of the batch is delayed, so no submit suspends. The reversed one
\* goes through the batch from its end.
RECURSIVE SubmitEachReversed(_, _)
SubmitEachReversed(r, batch) ==
    IF batch = <<>>
    THEN r
    ELSE LET t == batch[Len(batch)].task_id
             ts == [r.tasks EXCEPT ![t] = Task(batch[Len(batch)].depends_on, 0, TRUE)]
             s == IF CanSchedule(ts, t)
                  THEN ScheduleTask(ts, r.pub, t)
                  ELSE [tasks |-> ts, pub |-> r.pub, sleeping |-> FALSE]
         IN SubmitEachReversed([tasks |-> s.tasks, pub |-> s.pub,
                                order |-> Append(r.order, t),
                                ids |-> Append(r.ids, t)],
                               SubSeq(batch, 1, Len(batch) - 1))

RECURSIVE SubmitEach(_, _)
SubmitEach(r, batch) ==
    IF batch = <<>>
    THEN r
    ELSE LET t == Head(batch).task_id
             ts == [r.tasks EXCEPT ![t] = Task(Head(batch).depends_on, 0, TRUE)]
             s == IF CanSchedule(ts, t)
                  THEN ScheduleTask(ts, r.pub, t)
                  ELSE [tasks |-> ts, pub |-> r.pub, sleeping |-> FALSE]
         IN SubmitEach([tasks |-> s.tasks, pub |-> s.pub,
                        order |-> Append(r.order, t),
                        ids |-> Append(r.ids, t)],
                       Tail(batch))

\* What submit_many(batch) leaves and returns in the current state.
SubmitManyResult(batch) ==
    SubmitEach([tasks |-> tasks, pub |-> PubState, order |-> task_order,
                ids |-> <<>>], batch)

\* TaskScheduler.submit_many(batch), task ids being distinct and new
SubmitMany(batch) ==
    /\ \A k \in 1..Len(batch) :
          /\ ~Known(tasks, batch[k].task_id)
          /\ \A j \in 1..(k - 1) : batch[j].task_id # batch[k].task_id
    /\ LET r == SubmitManyResult(batch)
       IN /\ tasks' = r.tasks
          /\ task_order' = r.order
          /\ PublishedAll(r.pub)
    /\ UNCHANGED <<subscriptions, global_subscriptions, bus_running, dispatch_task,
                   stop_pc, passes, event_history, user_subs, stop_mark, putters>>
    /\ UNCHANGED <<sleepers, sched_running, cancel_ret, agentVars, engineVars>>

\* The sleep of a _schedule_task called from submit ends.
SubmitWake(t) ==
    /\ t \in sleepers
    /\ LET r == ScheduleTaskWake(tasks, PubState, t)
       IN /\ tasks' = r.tasks
          /\ PublishedAll(r.pub)
    /\ sleepers' = sleepers \ {t}
    /\ UNCHANGED <<subscriptions, global_subscriptions, bus_running, dispatch_task,
                   stop_pc, passes, event_history, user_subs, stop_mark, putters>>
    /\ UNCHANGED <<task_order, sched_running, cancel_ret, agentVars, engineVars>>

\* TaskScheduler.cancel: the statuses it cancels
CancellableRunning(status) == status \in {"pending", "scheduled", "running"}

Cancellable(status) == status \in {"pending", "scheduled"}

\* TaskScheduler.cancel(t) returning True
Cancel(t) ==
    /\ Known(tasks, t)
    /\ Cancellable(tasks[t].status)
    /\ tasks' = [tasks EXCEPT ![t].status = "cancelled"]
    /\ cancel_ret' = "True"
    /\ UNCHANGED <<busVars, task_order, sleepers, sched_running, agentVars, engineVars>>

\* TaskScheduler.cancel(t) returning False: no task under the id, or a task
\* that is neither PENDING nor SCHEDULED
CancelRefused(t) ==
    /\ ~(Known(tasks, t) /\ Cancellable(tasks[t].status))
    /\ cancel_ret' = "False"
    /\ UNCHANGED <<busVars, tasks, task_order, sleepers, sched_running, agentVars, engineVars>>

\* A worker or a test reports a task: bus.publish(Event("task.completed" or
\* "task.failed", payload={"task_id": t}))
ReportTask(topic, t) ==
    /\ ExternalCount < MaxEvents
    /\ PublishedAll(Publish(PubState, topic, t, FALSE, "user"))
    /\ UNCHANGED <<subscriptions, global_subscriptions, bus_running, dispatch_task,
                   stop_pc, passes, event_history, user_subs, stop_mark, putters>>
    /\ UNCHANGED <<schedVars, agentVars, engineVars>>

\* _on_task_completed, from its start to the end or to a sleep in _schedule_task
OnTaskCompletedStatus(status) == "completed"

OnTaskCompleted(d, i) ==
    /\ IsCall(d, i, "sched_completed")
    /\ CanStart(d, i)
    /\ LET t == passes[d].event.task_id
       IN IF ~Known(tasks, t)
          THEN /\ passes' = Ended(d, i, "ok")
               /\ UNCHANGED <<tasks, event_queue, next_event_id, ev, pub_log, stats>>
          ELSE LET ts == [tasks EXCEPT ![t].status = OnTaskCompletedStatus(@)]
                   r == CheckDependents(ts, PubState, t, task_order)
               IN /\ tasks' = r.tasks
                  /\ PublishedAll(r.pub)
                  /\ passes' = IF r.cur = NoTask
                               THEN Ended(d, i, "ok")
                               ELSE [passes EXCEPT ![d].handlers[i] =
                                        [@ EXCEPT !.pc = "sleep", !.cur = r.cur,
                                                  !.rest = r.rest,
                                                  !.n = Len(task_order)]]
    /\ UNCHANGED <<subscriptions, global_subscriptions, bus_running, dispatch_task,
                   stop_pc, event_history, user_subs, stop_mark, putters>>
    /\ UNCHANGED <<task_order, sleepers, sched_running, cancel_ret, agentVars, engineVars>>

\* The sleep of a _schedule_task called from _check_dependents ends: RUNNING,
\* the publish, and the for loop goes on; its iterator raises RuntimeError
\* when _tasks has changed size since the loop began.
OnTaskCompletedWake(d, i) ==
    /\ IsCall(d, i, "sched_completed")
    /\ HandlerAt(d, i).pc = "sleep"
    /\ LET h == HandlerAt(d, i)
           w == ScheduleTaskWake(tasks, PubState, h.cur)
           changed == Len(task_order) # h.n
           r == IF changed
                THEN [tasks |-> w.tasks, pub |-> w.pub, cur |-> NoTask, rest |-> <<>>]
                ELSE CheckDependents(w.tasks, w.pub, passes[d].event.task_id, h.rest)
           outcome == IF changed THEN "raise" ELSE "ok"
       IN /\ tasks' = r.tasks
          /\ CanPublish(r.pub)
          /\ event_queue' = r.pub.queue
          /\ next_event_id' = r.pub.next_id
          /\ pub_log' = r.pub.log
          /\ stats' = [stats EXCEPT !.published = r.pub.published,
                                    !.errors = @ + SafeCall(outcome).errors]
          /\ ev' = [r.pub.ev EXCEPT ![passes[d].event.event_id].raised =
                                        @ + Raises(outcome)]
          /\ passes' = IF r.cur = NoTask
                       THEN [passes EXCEPT ![d].handlers[i] =
                                [@ EXCEPT !.pc = SafeCall(outcome).pc,
                                          !.cur = NoTask, !.rest = <<>>]]
                       ELSE [passes EXCEPT ![d].handlers[i] =
                                [@ EXCEPT !.cur = r.cur, !.rest = r.rest]]
    /\ UNCHANGED <<subscriptions, global_subscriptions, bus_running, dispatch_task,
                   stop_pc, event_history, user_subs, stop_mark, putters>>
    /\ UNCHANGED <<task_order, sleepers, sched_running, cancel_ret, agentVars, engineVars>>

\* _on_task_failed
OnTaskFailed(d, i) ==
    /\ IsCall(d, i, "sched_failed")
    /\ CanStart(d, i)
    /\ LET t == passes[d].event.task_id
       IN tasks' = IF Known(tasks, t)
                   THEN [tasks EXCEPT ![t].status = "failed"]
                   ELSE tasks
    /\ passes' = Ended(d, i, "ok")
    /\ UNCHANGED <<subscriptions, global_subscriptions, event_queue, bus_running,
                   dispatch_task, stop_pc, event_history, stats, next_event_id,
                   user_subs, ev, pub_log, stop_mark, putters>>
    /\ UNCHANGED <<task_order, sleepers, sched_running, cancel_ret, agentVars, engineVars>>

\* TaskScheduler.__init__: the two subscriptions it makes
SchedulerSubscriptions(d) ==
    SubscribeTopic(
        SubscribeTopic(d, Subscription(Handler("sched_completed", "scheduler"),
                                       "scheduler", T_TASK_COMPLETED, NORMAL)),
        Subscription(Handler("sched_failed", "scheduler"),
                     "scheduler", T_TASK_FAILED, NORMAL))

\* ------------------------------------------------------- Agent

\* AgentConfig(name, provider, system_prompt, subscriptions, max_history):
\* registered: config.provider is a name the registry can resolve;
\* system_prompt: the configured prompt is not empty.
AgentConfig(name, registered, system_prompt, subs, max) ==
    [added |-> TRUE, name |-> name, registered |-> registered,
     system_prompt |-> system_prompt, subscriptions |-> subs,
     max_history |-> max]

NotAdded == [added |-> FALSE]

\* f"agent.response.{self.config.name}"
ResponseTopic(name) == <<"agent", DOT, "response", DOT, name>>

\* think: "if len(history) > max_history": the system messages, then
\* history[-(max_history - len(system_msgs)):] as Python slices it.
TrimHistory(h, max) ==
    IF Len(h) > max
    THEN LET system_msgs == SelectSeq(h, LAMBDA m : m = "system")
             k == max - Len(system_msgs)
             recent == IF k > 0 THEN SubSeq(h, Len(h) - k + 1, Len(h))
                       ELSE IF k = 0 THEN h
                       ELSE SubSeq(h, 1 - k, Len(h))
         IN system_msgs \o recent
    ELSE h

\* An acquire() that does not look at the holder of the lock.
CanAcquireWhileHeld(l) == l.waiters = <<>>

\* asyncio.Lock.acquire() takes the lock without waiting
CanAcquire(l) == ~l.locked /\ l.waiters = <<>>

\* Agent.initialize, as one coroutine of the gather of SwarmEngine.start:
\* an unresolved provider raises KeyError after INITIALIZING has been set.
\* Returns the agent's fields and the subscription table.
RECURSIVE SubscribeEach(_, _, _)
SubscribeEach(d, a, patterns) ==
    IF patterns = <<>>
    THEN d
    ELSE SubscribeEach(SubscribeTopic(d, Subscription(Handler("agent", a), a,
                                                      Head(patterns), NORMAL)),
                       a, Tail(patterns))

\* An initialize that subscribes before it resolves the provider.
InitializeSubscribesFirst(a, d, history) ==
    [state |-> IF agent_cfg[a].registered THEN "idle" ELSE "initializing",
     provider |-> agent_cfg[a].registered,
     history |-> IF agent_cfg[a].registered /\ agent_cfg[a].system_prompt
                 THEN Append(history, "system") ELSE history,
     subscriptions |-> SubscribeEach(d, a, agent_cfg[a].subscriptions)]

Initialize(a, d, history) ==
    IF ~agent_cfg[a].registered
    THEN [state |-> "initializing", provider |-> FALSE, history |-> history,
          subscriptions |-> d]
    ELSE [state |-> "idle", provider |-> TRUE,
          history |-> IF agent_cfg[a].system_prompt
                      THEN Append(history, "system") ELSE history,
          subscriptions |-> SubscribeEach(d, a, agent_cfg[a].subscriptions)]

\* _handle_event from the lock taken to the await of provider.complete, or to
\* its end when on_event returns at once (no content, or no provider bound).
\* An on_event that sends every event to think, with or without a content.
HandleEventEnterAnyContent(a, event) ==
    IF ~agent_provider[a]
    THEN [state |-> "idle", history |-> message_history[a],
          calls |-> backend_calls[a], pc |-> "done"]
    ELSE [state |-> "processing",
          history |-> TrimHistory(Append(message_history[a], "user"),
                                  agent_cfg[a].max_history),
          calls |-> backend_calls[a] + 1, pc |-> "backend"]

HandleEventEnter(a, event) ==
    IF ~event.content \/ ~agent_provider[a]
    THEN [state |-> "idle", history |-> message_history[a],
          calls |-> backend_calls[a], pc |-> "done"]
    ELSE [state |-> "processing",
          history |-> TrimHistory(Append(message_history[a], "user"),
                                  agent_cfg[a].max_history),
          calls |-> backend_calls[a] + 1, pc |-> "backend"]

\* "finally: if self.state == PROCESSING: self.state = IDLE"
FinallyState(state) == IF state = "processing" THEN "idle" ELSE state

\* The agent's handler with the lock just taken by the coroutine <<d, i>>.
AgentEnter(a, d, i, waiters) ==
    LET r == HandleEventEnter(a, passes[d].event)
    IN /\ agent_state' = [agent_state EXCEPT ![a] = r.state]
       /\ message_history' = [message_history EXCEPT ![a] = r.history]
       /\ backend_calls' = [backend_calls EXCEPT ![a] = r.calls]
       /\ processing_lock' = [processing_lock EXCEPT ![a] =
             IF r.pc = "done"
             THEN [locked |-> FALSE, owner |-> <<>>, waiters |-> waiters]
             ELSE [locked |-> TRUE, owner |-> <<d, i>>, waiters |-> waiters]]
       /\ passes' = [passes EXCEPT ![d].handlers[i].pc = r.pc]

\* _handle_event starts: "async with self._processing_lock"
AgentHandlerStart(d, i) ==
    /\ IsCall(d, i, "agent")
    /\ CanStart(d, i)
    /\ LET a == HandlerAt(d, i).sub.handler.owner
           l == processing_lock[a]
       IN IF CanAcquire(l)
          THEN AgentEnter(a, d, i, l.waiters)
          ELSE /\ processing_lock' = [processing_lock EXCEPT ![a].waiters =
                                          Append(@, <<d, i>>)]
               /\ passes' = [passes EXCEPT ![d].handlers[i].pc = "lockwait"]
               /\ UNCHANGED <<agent_state, message_history, backend_calls>>
    /\ UNCHANGED <<subscriptions, global_subscriptions, event_queue, bus_running,
                   dispatch_task, stop_pc, event_history, stats, next_event_id,
                   user_subs, ev, pub_log, stop_mark, putters>>
    /\ UNCHANGED <<schedVars, agent_cfg, agent_provider, engineVars>>

\* The first waiter of the released lock is woken and takes it.
AgentLockAcquired(d, i) ==
    /\ IsCall(d, i, "agent")
    /\ HandlerAt(d, i).pc = "lockwait"
    /\ LET a == HandlerAt(d, i).sub.handler.owner
           l == processing_lock[a]
       IN /\ ~l.locked
          /\ l.waiters # <<>> /\ Head(l.waiters) = <<d, i>>
          /\ AgentEnter(a, d, i, Tail(l.waiters))
    /\ UNCHANGED <<subscriptions, global_subscriptions, event_queue, bus_running,
                   dispatch_task, stop_pc, event_history, stats, next_event_id,
                   user_subs, ev, pub_log, stop_mark, putters>>
    /\ UNCHANGED <<schedVars, agent_cfg, agent_provider, engineVars>>

\* str() of the exception a failing provider.complete raises.
BackendFailure == "backend failure"

\* An agent.error payload that passes the exception's text on.
ErrorPayloadRaw(a, event, exc) ==
    [NoPayload EXCEPT !.agent_id = a, !.event_topic = event.topic, !.error = exc]

\* _handle_event, except branch: the payload of the agent.error event
ErrorPayload(a, event, exc) ==
    [NoPayload EXCEPT !.agent_id = a, !.event_topic = event.topic,
                      !.error = "Processing failed"]

\* A response payload that does not name the event it answers.
ResponsePayloadNoSource(a, event, text) ==
    [NoPayload EXCEPT !.agent_id = a, !.text = text]

\* on_event: the payload of the response event (model and usage left out)
ResponsePayload(a, event, text) ==
    [NoPayload EXCEPT !.agent_id = a, !.text = text,
                      !.source_event = event.event_id]

\* provider.complete returns its text or raises ("raise"): the rest of think and
\* on_event with the emit of the response, or the except branch of
\* _handle_event with the emit of agent.error; then "finally" and the release
\* of the lock.  _handle_event itself returns normally in both cases.
AgentBackendReturn(d, i, outcome) ==
    /\ IsCall(d, i, "agent")
    /\ HandlerAt(d, i).pc = "backend"
    /\ LET a == HandlerAt(d, i).sub.handler.owner
           state == IF outcome = "raise" THEN "error" ELSE agent_state[a]
           topic == IF outcome = "raise"
                    THEN T_AGENT_ERROR
                    ELSE ResponseTopic(agent_cfg[a].name)
       IN /\ agent_state' = [agent_state EXCEPT ![a] = FinallyState(state)]
          /\ message_history' = [message_history EXCEPT ![a] =
                IF outcome = "raise" THEN @ ELSE Append(@, "assistant")]
          /\ PublishedAll(PublishEvent(PubState,
                [Event(next_event_id + 1, topic, NoTask, outcome # "raise", a)
                    EXCEPT !.payload =
                        IF outcome = "raise"
                        THEN ErrorPayload(a, passes[d].event, BackendFailure)
                        ELSE ResponsePayload(a, passes[d].event, outcome)]))
          /\ processing_lock' = [processing_lock EXCEPT ![a] = Release(@)]
    /\ passes' = Ended(d, i, "ok")
    /\ UNCHANGED <<subscriptions, global_subscriptions, bus_running, dispatch_task,
                   stop_pc, event_history, user_subs, stop_mark, putters>>
    /\ UNCHANGED <<schedVars, agent_cfg, agent_provider, backend_calls, engineVars>>

\* ------------------------------------------------------- ProviderRegistry

\* The names of providers: the instance the tests register, a built-in class
\* of _register_builtin_providers, and a name of neither.
ProviderNames == {"mock", "openai", "custom"}

\* ProviderRegistry.__init__: _providers = {} and _factory = {}
\* (_providers[name] is "absent" for a missing key, else how the instance
\* came in: "instance" or "created").
NoProviders ==
    [providers |-> [n \in ProviderNames |-> "absent"], factory |-> {}]

NoCall == [call |-> "none", name |-> "", outcome |-> ""]

\* register_class: self._factory[name] = provider_class
RegisterClassIn(r, name) == [r EXCEPT !.factory = @ \cup {name}]

\* register_instance: self._providers[name] = provider
RegisterInstanceIn(r, name) == [r EXCEPT !.providers[name] = "instance"]

\* create, the name being in _factory: self._providers[name] = provider
CreateIn(r, name) == [r EXCEPT !.providers[name] = "created"]

\* get: "if name in self._providers: return ...", else KeyError
Get(r, name) ==
    IF r.providers[name] # "absent" THEN "ok" ELSE "KeyError"

\* available: the keys of _providers and of _factory, each once
Available(r) ==
    {n \in ProviderNames : r.providers[n] # "absent"} \cup r.factory

\* __contains__: name in self._providers or name in self._factory
Contains(r, name) == r.providers[name] # "absent" \/ name \in r.factory

\* SwarmEngine.status()["providers"]: self.provider_registry.available
StatusProviders(r) == Available(r)

RegisterClass(name) ==
    /\ provider_registry' = RegisterClassIn(provider_registry, name)
    /\ registry_ret' = [call |-> "register_class", name |-> name, outcome |-> "ok"]
    /\ UNCHANGED <<busVars, schedVars, agentVars, engine_running, engine_pc>>

RegisterInstance(name) ==
    /\ provider_registry' = RegisterInstanceIn(provider_registry, name)
    /\ registry_ret' = [call |-> "register_instance", name |-> name, outcome |-> "ok"]
    /\ UNCHANGED <<busVars, schedVars, agentVars, engine_running, engine_pc>>

\* create: KeyError when the name is not in _factory
Create(name) ==
    /\ IF name \in provider_registry.factory
       THEN /\ provider_registry' = CreateIn(provider_registry, name)
            /\ registry_ret' = [call |-> "create", name |-> name, outcome |-> "ok"]
       ELSE /\ registry_ret' = [call |-> "create", name |-> name,
                                outcome |-> "KeyError"]
            /\ UNCHANGED provider_registry
    /\ UNCHANGED <<busVars, schedVars, agentVars, engine_running, engine_pc>>

RegistryGet(name) ==
    /\ registry_ret' = [call |-> "get", name |-> name,
                        outcome |-> Get(provider_registry, name)]
    /\ UNCHANGED <<busVars, schedVars, agentVars, engine_running, engine_pc,
                   provider_registry>>

\* ------------------------------------------------------- SwarmEngine

\* SwarmEngine.__init__: the subscriptions of the scheduler and of the engine
EngineSubscriptions(d) ==
    SubscribeTopic(
        SubscribeTopic(SchedulerSubscriptions(d),
                       Subscription(Handler("engine_response", "engine"),
                                    "engine", P_AGENT_RESPONSE_ALL, NORMAL)),
        Subscription(Handler("engine_error", "engine"),
                     "engine", T_AGENT_ERROR, NORMAL))

\* _on_agent_response / _on_agent_error: they log and return
EngineHandlerRun(d, i) ==
    /\ IsCall(d, i, "engine_response") \/ IsCall(d, i, "engine_error")
    /\ CanStart(d, i)
    /\ passes' = Ended(d, i, "ok")
    /\ UNCHANGED <<subscriptions, global_subscriptions, event_queue, bus_running,
                   dispatch_task, stop_pc, event_history, stats, next_event_id,
                   user_subs, ev, pub_log, stop_mark, putters>>
    /\ UNCHANGED <<schedVars, agentVars, engineVars>>

\* SwarmEngine.broadcast(topic, payload)
Broadcast(topic, content) ==
    /\ ExternalCount < MaxEvents
    /\ PublishedAll(Publish(PubState, topic, NoTask, content, "engine"))
    /\ UNCHANGED <<subscriptions, global_subscriptions, bus_running, dispatch_task,
                   stop_pc, passes, event_history, user_subs, stop_mark, putters>>
    /\ UNCHANGED <<schedVars, agentVars, engineVars>>

\* The agents of self._agents, in the order in which add_agent added them.
AgentOrder == <<"a1", "a2">>

\* The gather of agent.initialize() over the agents from the k-th on:
\* r holds the fields of the agents and the subscription table so far.
RECURSIVE InitializeAll(_, _)
InitializeAll(k, r) ==
    IF k > Len(AgentOrder)
    THEN r
    ELSE LET a == AgentOrder[k]
             x == Initialize(a, r.subscriptions, r.history[a])
         IN IF ~agent_cfg[a].added
            THEN InitializeAll(k + 1, r)
            ELSE InitializeAll(k + 1,
                    [state |-> [r.state EXCEPT ![a] = x.state],
                     provider |-> [r.provider EXCEPT ![a] = x.provider],
                     history |-> [r.history EXCEPT ![a] = x.history],
                     subscriptions |-> x.subscriptions])

\* Agent.shutdown of every agent: SHUTDOWN and event_bus.unsubscribe(agent_id)
RECURSIVE ShutdownAll(_, _)
ShutdownAll(k, r) ==
    IF k > Len(AgentOrder)
    THEN r
    ELSE LET a == AgentOrder[k]
         IN IF ~agent_cfg[a].added
            THEN ShutdownAll(k + 1, r)
            ELSE ShutdownAll(k + 1,
                    [state |-> [r.state EXCEPT ![a] = "shutdown"],
                     subscriptions |-> UnsubscribeTopics(r.subscriptions, a),
                     global |-> UnsubscribeGlobal(r.global, a)])

\* A start() that goes on to initialize the agents without starting the bus.
EngineStartNoRouter ==
    /\ ~engine_running
    /\ engine_pc = "idle"
    /\ engine_pc' = "initialize"
    /\ UNCHANGED <<busVars, schedVars, agentVars, engine_running, registryVars>>

\* SwarmEngine.start up to its gather: "if self._running: return", then
\* event_bus.start()
EngineStart ==
    /\ ~engine_running
    /\ engine_pc = "idle"
    /\ IF bus_running
       THEN UNCHANGED <<bus_running, dispatch_task, stop_pc>>
       ELSE BusStartBody
    /\ engine_pc' = "initialize"
    /\ UNCHANGED <<subscriptions, global_subscriptions, event_queue, passes,
                   event_history, stats, next_event_id, user_subs, ev,
                   pub_log, stop_mark, putters>>
    /\ UNCHANGED <<schedVars, agentVars, engine_running, registryVars>>

\* SwarmEngine.start on a running engine: "if self._running: return"
EngineStartRunning ==
    /\ engine_running
    /\ engine_pc = "idle"
    /\ UNCHANGED vars

\* SwarmEngine.stop on an engine that does not run: "if not self._running: return"
EngineStopStopped ==
    /\ ~engine_running
    /\ engine_pc = "idle"
    /\ UNCHANGED vars

\* await agent.shutdown(), called on agent a by itself (test_agent_shutdown)
AgentShutdown(a) ==
    /\ agent_cfg[a].added
    /\ agent_state' = [agent_state EXCEPT ![a] = "shutdown"]
    /\ subscriptions' = UnsubscribeTopics(subscriptions, a)
    /\ global_subscriptions' = UnsubscribeGlobal(global_subscriptions, a)
    /\ UNCHANGED <<event_queue, bus_running, dispatch_task, stop_pc, passes,
                   event_history, stats, next_event_id, user_subs, ev,
                   pub_log, stop_mark, putters>>
    /\ UNCHANGED <<schedVars, agent_cfg, agent_provider, message_history,
                   processing_lock, backend_calls, engineVars>>

\* The coroutines of gather(*init_tasks, return_exceptions=True) run.
EngineInitializeAgents ==
    /\ engine_pc = "initialize"
    /\ LET r == InitializeAll(1, [state |-> agent_state, provider |-> agent_provider,
                                  history |-> message_history,
                                  subscriptions |-> subscriptions])
       IN /\ agent_state' = r.state
          /\ agent_provider' = r.provider
          /\ message_history' = r.history
          /\ subscriptions' = r.subscriptions
    /\ engine_pc' = "start_end"
    /\ UNCHANGED <<global_subscriptions, event_queue, bus_running, dispatch_task,
                   stop_pc, passes, event_history, stats, next_event_id,
                   user_subs, ev, pub_log, stop_mark, putters>>
    /\ UNCHANGED <<schedVars, agent_cfg, processing_lock, backend_calls,
                   engine_running, registryVars>>

\* scheduler.start(); self._running = True
EngineStartEnd ==
    /\ engine_pc = "start_end"
    /\ sched_running' = TRUE
    /\ engine_running' = TRUE
    /\ engine_pc' = "idle"
    /\ UNCHANGED <<busVars, tasks, task_order, sleepers, cancel_ret, agentVars,
                   registryVars>>

\* SwarmEngine.stop: "if not self._running: return", then the coroutines of
\* gather(*shutdown_tasks) run.
EngineStop ==
    /\ engine_running
    /\ engine_pc = "idle"
    /\ LET r == ShutdownAll(1, [state |-> agent_state,
                                subscriptions |-> subscriptions,
                                global |-> global_subscriptions])
       IN /\ agent_state' = r.state
          /\ subscriptions' = r.subscriptions
          /\ global_subscriptions' = r.global
    /\ engine_pc' = "stop_bus"
    /\ UNCHANGED <<event_queue, bus_running, dispatch_task, stop_pc, passes,
                   event_history, stats, next_event_id, user_subs, ev,
                   pub_log, stop_mark, putters>>
    /\ UNCHANGED <<schedVars, agent_cfg, agent_provider, message_history,
                   processing_lock, backend_calls, engine_running, registryVars>>

\* scheduler.stop(); event_bus.stop() up to its first suspension point
EngineStopBus ==
    /\ engine_pc = "stop_bus"
    /\ sched_running' = FALSE
    /\ IF bus_running
       THEN BusStopBody
       ELSE /\ stop_pc' = "returned"
            /\ UNCHANGED <<bus_running, stop_mark, event_queue, event_history,
                           stats, passes, ev, dispatch_task, agent_state,
                           processing_lock, putters>>
    /\ engine_pc' = "stop_wait"
    /\ UNCHANGED <<subscriptions, global_subscriptions, next_event_id,
                   user_subs, pub_log>>
    /\ UNCHANGED <<tasks, task_order, sleepers, cancel_ret, agent_cfg, agent_provider,
                   message_history, backend_calls, engine_running, registryVars>>

\* event_bus.stop() has returned (or raised): self._running = False
EngineStopEnd ==
    /\ engine_pc = "stop_wait"
    /\ stop_pc \in {"returned", "raised"}
    /\ engine_running' = (stop_pc = "raised")
    /\ engine_pc' = "idle"
    /\ UNCHANGED <<busVars, schedVars, agentVars, registryVars>>

\* ------------------------------------------------------- initial states

\* EventBus.__init__ with the subscriptions the constructors of its owners made
BusInit(d) ==
    /\ subscriptions = d
    /\ global_subscriptions = <<>>
    /\ event_queue = <<>>
    /\ bus_running = FALSE
    /\ dispatch_task = "none"
    /\ stop_pc = "idle"
    /\ passes = [x \in Dispatchers |-> NoPass]
    /\ event_history = <<>>
    /\ stats = [published |-> 0, dispatched |-> 0, errors |-> 0]
    /\ next_event_id = 0
    /\ user_subs = 0
    /\ ev = [e \in EventIds |-> EventFate("new", 0)]
    /\ pub_log = <<>>
    /\ stop_mark = 0
    /\ putters = <<>>

\* No TaskScheduler, no SwarmEngine and no Agent has been constructed.
NoScheduler ==
    /\ tasks = [t \in AllTaskIds |-> AbsentTask]
    /\ task_order = <<>>
    /\ sleepers = {}
    /\ sched_running = FALSE
    /\ cancel_ret = "none"

\* The registry of an engine whose agents are cfg: the tests register one
\* instance under "mock", the name every agent with a registered provider uses.
RegistryFor(cfg) ==
    IF \E a \in AgentIds : cfg[a].added /\ cfg[a].registered
    THEN RegisterInstanceIn(NoProviders, "mock")
    ELSE NoProviders

AgentsInit(cfg) ==
    /\ agent_cfg = cfg
    /\ agent_state = [a \in AgentIds |-> "created"]
    /\ agent_provider = [a \in AgentIds |-> FALSE]
    /\ message_history = [a \in AgentIds |-> <<>>]
    /\ processing_lock = [a \in AgentIds |-> FreeLock]
    /\ backend_calls = [a \in AgentIds |-> 0]
    /\ engine_running = FALSE
    /\ engine_pc = "idle"
    /\ provider_registry = RegistryFor(cfg)
    /\ registry_ret = NoCall

NoAgents == AgentsInit([a \in AgentIds |-> NotAdded])

\* ------------------------------------------------------- the bus on its own

InitBus == BusInit(<<>>) /\ NoScheduler /\ NoAgents

NextBus ==
    \/ \E h \in UserHandlers, p \in UserPatterns :
          next_event_id = 0 /\ ~bus_running /\ UserSubscribe(h, p)
    \/ UserPublish(T_TEST, NORMAL)
    \/ BusStart
    \/ BusStop
    \/ LoopDequeue
    \/ LoopExit
    \/ \E d \in Dispatchers : PassFinish(d)
    \/ \E d \in Dispatchers, i \in 1..MaxUserSubs : UserHandlerSuspend(d, i)
    \/ \E d \in Dispatchers, i \in 1..MaxUserSubs, o \in {"ok", "raise"} :
          UserHandlerEnd(d, i, o)

SpecBus == InitBus /\ [][NextBus]_vars


\* ======================================================= the bus with patterns

\* Patterns user code subscribes to: h1 to an exact topic, to its wildcard or
\* to the global one, h2 to the wildcard.
MatchPatterns(h) ==
    IF h = "h1"
    THEN {<<"a">>, <<"a", DOT, STAR>>, GLOBAL_PATTERN}
    ELSE {<<"a", DOT, STAR>>}

\* Topics user code publishes to: "a", "a.b", "a.b.a", "b", "ab" and "a.*".
MatchTopics ==
    {<<"a">>, <<"a", DOT, "b">>, <<"a", DOT, "b", DOT, "a">>, <<"b">>,
     <<"a", "b">>, <<"a", DOT, STAR>>}

\* The priority user code gives to the events of a topic.
TopicPriority(topic) ==
    IF topic = <<"b">> THEN CRITICAL ELSE IF topic = <<"a">> THEN LOW ELSE NORMAL

NextMatch ==
    \/ \E h \in UserHandlers : \E p \in MatchPatterns(h) :
          next_event_id = 0 /\ ~bus_running /\ UserSubscribe(h, p)
    \/ \E h \in UserHandlers : Unsubscribe(h)
    \/ \E t \in MatchTopics : UserPublish(t, TopicPriority(t))
    \/ BusStart
    \/ LoopDequeue
    \/ \E d \in Dispatchers : PassFinish(d)
    \/ \E d \in Dispatchers, i \in 1..MaxUserSubs : UserHandlerEnd(d, i, "ok")

SpecMatch == InitBus /\ [][NextMatch]_vars

\* ======================================================= the bus with a small queue

\* EventBus(max_queue_size=QueueCap)
QueueCap == 1

\* The publish calls made on it.
MaxCapEvents == MaxEvents + 2

NextCap ==
    \/ \E h \in UserHandlers, p \in UserPatterns :
          next_event_id = 0 /\ ~bus_running /\ user_subs = 0 /\ UserSubscribe(h, p)
    \/ next_event_id < MaxCapEvents /\ PublishNowait(QueueCap, T_TEST)
    \/ next_event_id < MaxCapEvents /\ PublishPut(QueueCap, T_TEST)
    \/ \E i \in 1..MaxCapEvents : PutResume(QueueCap, i)
    \/ BusStart
    \/ BusStop
    \/ LoopDequeue
    \/ LoopExit
    \/ \E d \in Dispatchers : PassFinish(d)
    \/ \E d \in Dispatchers : UserHandlerEnd(d, 1, "ok")

SpecCap == InitBus /\ [][NextCap]_vars


\* ======================================================= properties: the bus

RECURSIVE SumRaised(_)
SumRaised(n) == IF n = 0 THEN 0 ELSE ev[n].raised + SumRaised(n - 1)

\* A coroutine of the pass of d is suspended at an await inside its handler.
Suspended(h) == h.pc \in {"suspended", "sleep", "lockwait", "backend"}

SomeSuspended(d) ==
    Active(d) /\ \E i \in 1..Len(passes[d].handlers) : Suspended(HandlerAt(d, i))

\* C1: when stop() has returned, every event published before stop() was
\* called has been dispatched (its pass ran to its end), and with no later
\* publish the dispatched counter equals the published counter.
C1_StopDrainsWithoutLoss ==
    stop_pc = "returned" =>
        /\ \A e \in 1..stop_mark : ev[e].fate = "dispatched"
        /\ next_event_id = stop_mark => stats.dispatched = stats.published

\* C9: a raising handler is isolated: an event's pass always runs to its end
\* with every matched handler finished, no pass is aborted and stop() never
\* raises, the loop stays alive while the bus runs, and the error counter is
\* the number of handler invocations that raised.
C9_HandlerErrorIsolation ==
    /\ \A e \in EventIds :
          /\ ev[e].fate # "aborted"
          /\ ev[e].fate = "dispatched" => ev[e].finished = ev[e].matched
    /\ stop_pc # "raised"
    /\ bus_running => dispatch_task \in {"get", "dispatch"}
    /\ stats.errors = SumRaised(MaxEventIds)

\* C9 witness: an event with two matched handlers, one of which raised, has
\* been dispatched in full, and a later event has been dispatched after it.
C9_Witness ==
    \E e1, e2 \in EventIds :
        /\ e1 < e2
        /\ ev[e1].fate = "dispatched" /\ ev[e1].matched >= 2 /\ ev[e1].raised = 1
        /\ ev[e1].finished = ev[e1].matched
        /\ ev[e2].fate = "dispatched" /\ ev[e2].matched >= 2
        /\ stats.errors = 1
        /\ bus_running /\ stop_mark = 0 /\ dispatch_task = "get"

\* C10: while a handler of the event the loop dequeued is suspended and the
\* bus runs, the loop can dequeue the next queued event.
C10_SuspendedHandlerDoesNotStallLoop ==
    (bus_running /\ SomeSuspended("loop") /\ event_queue # <<>>)
        => ENABLED LoopDequeue


\* ------------------------------------------------------- matching

\* Every registration of the two tables.
Registrations ==
    Flatten([i \in 1..Len(subscriptions) |-> subscriptions[i].subs])
        \o global_subscriptions

\* The step is one dequeue: the loop takes the next event and starts its pass.
Dequeues == Len(event_history') = Len(event_history) + 1

DequeuedEvent == event_history'[Len(event_history')]

\* The registrations whose handlers the pass of the dequeued event invokes.
Invoked ==
    IF passes'["loop"].event = DequeuedEvent
    THEN [i \in 1..Len(passes'["loop"].handlers) |-> passes'["loop"].handlers[i].sub]
    ELSE <<>>

Count(seq, x) == Len(SelectSeq(seq, LAMBDA y : y = x))

\* The topics a pattern stands for: every topic for "*"; for "T.*" the topics
\* that begin with "T."; for any other pattern the pattern itself.
PatternCovers(pattern, topic) ==
    IF pattern = GLOBAL_PATTERN THEN TRUE
    ELSE IF EndsWith(pattern, WILDCARD_SUFFIX)
    THEN StartsWith(topic, Prefix(pattern, Len(pattern) - 2) \o <<DOT>>)
    ELSE pattern = topic

\* C16: a pass invokes a registration exactly when its pattern covers the
\* topic of the event: "T.*" for the topics with the leading part "T." at any
\* depth and not for T, a sibling or a topic that only begins with the
\* characters of T; "*" for every topic; an exact pattern for its own topic.
C16_WildcardMatching ==
    [][Dequeues =>
          \A k \in 1..Len(Registrations) :
              (Count(Invoked, Registrations[k]) > 0)
                  <=> PatternCovers(Registrations[k].topic_pattern,
                                    DequeuedEvent.topic)]_vars

\* C16 witness: with "a.*" and "*" registered, the events on "a.b.a" and on
\* "ab" have been dispatched: the first matched "a.*" and "*", the second
\* "*" only.
C16_Witness ==
    /\ \E k \in 1..Len(subscriptions) : subscriptions[k].pattern = <<"a", DOT, STAR>>
    /\ Len(Registrations) = 2 /\ Len(global_subscriptions) = 1
    /\ Len(pub_log) = 2
    /\ pub_log[1].topic = <<"a", DOT, "b", DOT, "a">>
    /\ pub_log[2].topic = <<"a", "b">>
    /\ ev[1].fate = "dispatched" /\ ev[1].matched = 2
    /\ ev[2].fate = "dispatched" /\ ev[2].matched = 1

\* C17: a pass invokes every registration whose pattern covers the topic
\* exactly once: k identical registrations give k invocations, and no
\* registration is collected twice.
C17_OneInvocationPerRegistration ==
    [][Dequeues =>
          \A k \in 1..Len(Registrations) :
              Count(Invoked, Registrations[k]) =
                  IF PatternCovers(Registrations[k].topic_pattern, DequeuedEvent.topic)
                  THEN Count(Registrations, Registrations[k])
                  ELSE 0]_vars

\* The registrations subscriber id sid holds, in the order of the tables.
RegistrationsOf(sid) ==
    SelectSeq(Registrations, LAMBDA r : r.subscriber_id = sid)

\* A step that is unsubscribe(S): the count it returns is the number of
\* registrations S held, S holds none afterwards and a second call would
\* return 0, and the registrations of every other id are as before.
C18_UnsubscribeStep ==
    \A sid \in UserHandlers :
        Unsubscribe(sid) =>
            /\ UnsubscribeCount(subscriptions, global_subscriptions, sid)
                    = Len(RegistrationsOf(sid))
            /\ RegistrationsOf(sid)' = <<>>
            /\ UnsubscribeCount(subscriptions', global_subscriptions', sid) = 0
            /\ \A other \in UserHandlers \ {sid} :
                  RegistrationsOf(other)' = RegistrationsOf(other)

\* A pass that starts while S holds no registration invokes no handler of S.
C18_NotInvokedAfterwards ==
    Dequeues =>
        \A sid \in UserHandlers :
            RegistrationsOf(sid) = <<>> =>
                \A k \in 1..Len(Invoked) : Invoked[k].subscriber_id # sid

\* C18: unsubscribe(S) returns the number N of registrations S holds (over
\* exact, wildcard and global patterns), a second call returns 0, passes
\* that start afterwards never invoke S's handlers, and the registrations
\* of the other subscriber ids are unchanged.
C18_UnsubscribeCounts ==
    [][C18_UnsubscribeStep /\ C18_NotInvokedAfterwards]_vars

\* C18 witness: two registrations were made, one on "a.*" and one on "*"; the
\* first event on "a.b" was dispatched to both; none is left after
\* unsubscribe, and the second event on "a.b" was dispatched to no handler.
C18_Witness ==
    /\ user_subs = 2
    /\ Registrations = <<>>
    /\ Len(pub_log) = 2
    /\ \A k \in 1..2 : pub_log[k].topic = <<"a", DOT, "b">>
    /\ ev[1].fate = "dispatched" /\ ev[1].matched = 2
    /\ ev[2].fate = "dispatched" /\ ev[2].matched = 0

C20_PriorityOrdersHandlers ==
    \A d \in Dispatchers :
        \A i, j \in 1..Len(passes[d].handlers) :
            (/\ HandlerAt(d, i).sub.priority > HandlerAt(d, j).sub.priority
             /\ HandlerAt(d, j).pc # "start")
            => HandlerAt(d, i).pc # "start"

\* C20 witness: h2 (NORMAL) subscribed before h1 (HIGH) on the same topic;
\* in the pass of an event h1 has started and h2 has not.
C20_Witness ==
    /\ Len(subscriptions) = 1
    /\ Len(subscriptions[1].subs) = 2
    /\ subscriptions[1].subs[1].subscriber_id = "h2"
    /\ subscriptions[1].subs[2].subscriber_id = "h1"
    /\ \E d \in Dispatchers :
          /\ Len(passes[d].handlers) = 2
          /\ HandlerAt(d, 1).sub.subscriber_id = "h1"
          /\ HandlerAt(d, 1).sub.priority = HIGH
          /\ HandlerAt(d, 1).pc \in {"suspended", "done"}
          /\ HandlerAt(d, 2).sub.priority = NORMAL
          /\ HandlerAt(d, 2).pc = "start"

\* ------------------------------------------------------- history

\* The event id is visible in recent_events.
InHistory(id) == \E i \in DOMAIN event_history : event_history[i].event_id = id

\* C22: an event is in the history only after all of its matched handlers
\* have finished or failed: while a handler of an event has still to end,
\* the event is not in the history and has not been counted as dispatched.
C22_HistoryAfterHandling ==
    \A d \in Dispatchers :
        Active(d) /\ ~GatherDone(passes[d].handlers) =>
            /\ ~InHistory(passes[d].event.event_id)
            /\ ev[passes[d].event.event_id].fate # "dispatched"


\* The last n elements of hist, in their order (all of hist when n is more).
LastOf(hist, n) ==
    IF n >= Len(hist) THEN hist ELSE SubSeq(hist, Len(hist) - n + 1, Len(hist))

\* C23: for every limit >= 0, recent_events(limit) returns the min(limit,
\* history length) most recent events, oldest first, and the history never
\* holds more than max_history events.
C23_RecentEventsBounded ==
    /\ Len(event_history) <= max_history
    /\ \A limit \in 0..MaxEventIds :
          RecentEvents(event_history, limit) = LastOf(event_history, limit)


\* ------------------------------------------------------- capacity

\* The queue holds as many events as the bus was constructed to take.
QueueFull == Len(event_queue) >= QueueCap

\* The events whose blocking publish is suspended.
PutterEvents == {putters[i].event.event_id : i \in DOMAIN putters}

\* How many waiters hold the event id.
WaitersOf(id) == Cardinality({i \in DOMAIN putters : putters[i].event.event_id = id})

\* The event id has been enqueued by a publish call.
InLog(id) == \E i \in DOMAIN pub_log : pub_log[i].event_id = id

\* A non-blocking publish on a full queue fails: the queue and the published
\* counter stay as they were and the event is refused.
C21_NowaitFails ==
    PublishNowait(QueueCap, T_TEST) /\ QueueFull =>
        /\ event_queue' = event_queue
        /\ stats'.published = stats.published
        /\ pub_log' = pub_log
        /\ ev'[next_event_id + 1].fate = "refused"

\* A blocking publish on a full queue suspends: nothing is enqueued or
\* counted, and the event waits.
C21_BlockingSuspends ==
    PublishPut(QueueCap, T_TEST) /\ QueueFull =>
        /\ event_queue' = event_queue
        /\ stats'.published = stats.published
        /\ ev'[next_event_id + 1].fate = "putting"
        /\ next_event_id + 1 \in PutterEvents'

\* A suspended publish that resumes enqueues its event at the end and counts
\* it once when there is space, and goes on waiting when there is none.
C21_ResumeEnqueues ==
    \A i \in DOMAIN putters :
        PutResume(QueueCap, i) =>
            LET e == putters[i].event
            IN IF QueueFull
               THEN /\ e.event_id \in PutterEvents'
                    /\ event_queue' = event_queue
                    /\ stats'.published = stats.published
               ELSE /\ event_queue' = Append(event_queue, e)
                    /\ stats'.published = stats.published + 1
                    /\ e.event_id \notin PutterEvents'

\* A waiting event is held by exactly one waiter and has not been enqueued;
\* no other event is held by a waiter; the queue never exceeds its capacity;
\* every enqueued event has been counted once; a woken waiter can go on as
\* soon as there is space.
C21_NothingDropped ==
    /\ \A id \in EventIds :
          IF ev[id].fate = "putting"
          THEN WaitersOf(id) = 1 /\ ~InLog(id)
          ELSE WaitersOf(id) = 0
    /\ Len(event_queue) <= QueueCap
    /\ stats.published = Len(pub_log)
    /\ \A i, j \in DOMAIN pub_log : pub_log[i].event_id = pub_log[j].event_id => i = j
    /\ \A i \in DOMAIN putters :
          putters[i].woken /\ ~QueueFull => ENABLED PutResume(QueueCap, i)

\* A waiting event stays waiting until it is enqueued: it is never refused.
C21_WaitEndsEnqueued ==
    \A id \in EventIds :
        ev[id].fate = "putting" =>
            \/ ev'[id].fate = "putting"
            \/ ev'[id].fate = "queued" /\ InLog(id)' /\ ~QueueFull

\* C21: when the bounded queue is full, publish_nowait fails and leaves the
\* queue and the published counter unchanged; publish does not fail and does
\* not drop the event but suspends until there is space, then enqueues it and
\* increments the published counter by exactly one.
C21_CapacityHandling ==
    /\ []C21_NothingDropped
    /\ [][C21_NowaitFails /\ C21_BlockingSuspends /\ C21_ResumeEnqueues
            /\ C21_WaitEndsEnqueued]_vars

\* One publish was refused, and one event was enqueued after waiting while
\* an event created later had gone in before it.
C21_Witness ==
    /\ \E id \in EventIds : ev[id].fate = "refused"
    /\ \E i, j \in DOMAIN pub_log :
          i < j /\ pub_log[i].event_id > pub_log[j].event_id


\* ======================================================= the scheduler on a bus

\* The depends_on lists a submitted task may have: t2 may depend on t1, which
\* may be submitted before t2, after it, or never.
DependsOnChoices(t) == IF t = "t2" THEN {{}, {"t1"}} ELSE {{}}

\* EventBus() and TaskScheduler(event_bus) constructed, as in test_scheduler.py
InitSched == BusInit(SchedulerSubscriptions(<<>>)) /\ NoScheduler /\ NoAgents

NextSched ==
    \/ BusStart
    \/ LoopDequeue
    \/ \E d \in Dispatchers : PassFinish(d)
    \/ \E t \in TaskIds : \E deps \in DependsOnChoices(t), delay \in {0, 1} :
          Submit(t, deps, delay, TRUE)
    \/ \E t \in TaskIds : SubmitWake(t)
    \/ \E t \in TaskIds : Cancel(t)
    \/ \E t \in TaskIds, topic \in {T_TASK_COMPLETED, T_TASK_FAILED} :
          ReportTask(topic, t)
    \/ \E d \in Dispatchers : OnTaskCompleted(d, 1)
    \/ \E d \in Dispatchers : OnTaskCompletedWake(d, 1)
    \/ \E d \in Dispatchers : OnTaskFailed(d, 1)

SpecSched == InitSched /\ [][NextSched]_vars

\* The scheduler with cancel called on every task and in every status, the
\* refused calls included; no task is delayed.
NextCancel ==
    \/ BusStart
    \/ LoopDequeue
    \/ \E d \in Dispatchers : PassFinish(d)
    \/ \E t \in TaskIds : \E deps \in DependsOnChoices(t) : Submit(t, deps, 0, TRUE)
    \/ \E t \in TaskIds : Cancel(t)
    \/ \E t \in TaskIds : CancelRefused(t)
    \/ \E t \in TaskIds, topic \in {T_TASK_COMPLETED, T_TASK_FAILED} :
          ReportTask(topic, t)
    \/ \E d \in Dispatchers : OnTaskCompleted(d, 1)
    \/ \E d \in Dispatchers : OnTaskFailed(d, 1)

SpecCancel == InitSched /\ [][NextCancel]_vars

\* The scheduler with tasks submitted in batches: up to three tasks in any
\* order, t2 with or without the dependency on t1 and t3 with or without the
\* dependency on t2; a batch of one task is a single submit. t1 and t2 are
\* reported completed, so that a dependency is met before or after a batch.
BatchIds == {"t1", "t2", "t3"}

BatchDependsOn(t) ==
    IF t = "t2" THEN {{}, {"t1"}} ELSE IF t = "t3" THEN {{}, {"t2"}} ELSE {{}}

Batches ==
    UNION {{b \in [1..n -> [task_id : BatchIds, depends_on : SUBSET BatchIds]] :
               \A k \in 1..n : b[k].depends_on \in BatchDependsOn(b[k].task_id)} :
           n \in 1..Cardinality(BatchIds)}

NextBatch ==
    \/ BusStart
    \/ LoopDequeue
    \/ \E d \in Dispatchers : PassFinish(d)
    \/ \E batch \in Batches : SubmitMany(batch)
    \/ \E t \in TaskIds : ReportTask(T_TASK_COMPLETED, t)
    \/ \E d \in Dispatchers : OnTaskCompleted(d, 1)

SpecBatch == InitSched /\ [][NextBatch]_vars


\* The events dequeued and still being handled: one for each pass under way.
BeingHandled == Cardinality({d \in Dispatchers : Active(d)})

\* dispatched never exceeds published, and every published event is either
\* counted as dispatched, or in the queue, or being handled.
C37_Balance ==
    /\ stats.dispatched <= stats.published
    /\ stats.published = stats.dispatched + Len(event_queue) + BeingHandled

\* No step decreases a counter.
C37_NeverDecrease ==
    /\ stats'.published >= stats.published
    /\ stats'.dispatched >= stats.dispatched
    /\ stats'.errors >= stats.errors

\* C37: in every reachable state dispatched <= published, and published
\* equals the number of events fully dispatched plus the number still in the
\* queue plus the number dequeued but still being handled; the counters
\* never decrease.
C37_CounterInvariant == []C37_Balance /\ [][C37_NeverDecrease]_vars

\* ======================================================= properties: the scheduler

\* The ids of a batch, in the order of the batch.
IdsOf(batch) == [k \in 1..Len(batch) |-> batch[k].task_id]

\* A task of the batch that can run at once: each of its dependencies is
\* COMPLETED when submit_many is called.
EligibleAtOnce(b) == \A dep \in b.depends_on : tasks[dep].status = "completed"

\* The task ids of the events published by the step, in the order of the queue.
NewEvents ==
    [k \in 1..(Len(pub_log') - Len(pub_log)) |-> pub_log'[Len(pub_log) + k].task_id]

\* A step that is submit_many(batch): the ids returned and the ids registered
\* are those of the batch in its order; a task that depends on an earlier
\* task of the batch is registered and PENDING; the events published are
\* those of the tasks that can run at once, in the order of the batch, at the
\* end of the queue, and these tasks are RUNNING.
C34_SubmitManyStep ==
    \A batch \in Batches :
        SubmitMany(batch) =>
            /\ SubmitManyResult(batch).ids = IdsOf(batch)
            /\ task_order' = task_order \o IdsOf(batch)
            /\ \A k \in 1..Len(batch) :
                  /\ Known(tasks', batch[k].task_id)
                  /\ (\E j \in 1..(k - 1) : batch[j].task_id \in batch[k].depends_on)
                        => tasks'[batch[k].task_id].status = "pending"
                  /\ tasks'[batch[k].task_id].status =
                        IF EligibleAtOnce(batch[k]) THEN "running" ELSE "pending"
            /\ NewEvents = IdsOf(SelectSeq(batch, EligibleAtOnce))
            /\ Len(event_queue') = Len(event_queue) + Len(NewEvents)
            /\ \A k \in 1..Len(NewEvents) :
                  event_queue'[Len(event_queue) + k].task_id = NewEvents[k]

\* C34: submit_many([t1..tn]) returns the task ids in input order, registers
\* the tasks in input order, so that a later task depending on an earlier one
\* of the same batch is left PENDING (not rejected), and the events of the
\* tasks that are immediately eligible are enqueued in input order.
C34_SubmitManyOrder == [][C34_SubmitManyStep]_vars

\* One batch of three has been submitted, t3 before t2 before t1, with t2
\* depending on t1: t3 and t1 run and their events are queued in that order,
\* t2 waits.
C34_Witness ==
    /\ task_order = <<"t3", "t2", "t1">>
    /\ tasks["t2"].depends_on = {"t1"} /\ tasks["t2"].status = "pending"
    /\ tasks["t1"].status = "running" /\ tasks["t3"].status = "running"
    /\ Len(pub_log) = 2 /\ pub_log[1].task_id = "t3" /\ pub_log[2].task_id = "t1"
    /\ Len(event_queue) = 2

\* The ids cancel refuses: no task under the id, or a task that is RUNNING,
\* COMPLETED, FAILED or CANCELLED.
Ineligible(t) ==
    tasks[t].status \in {"absent", "running", "completed", "failed", "cancelled"}

\* A call of cancel(t), whatever it returns.
CancelCall(t) == Cancel(t) \/ CancelRefused(t)

\* For an ineligible id the call can only take the refusing branch.
C29_OnlyRefusal ==
    \A t \in TaskIds :
        Ineligible(t) => (ENABLED CancelRefused(t)) /\ ~(ENABLED Cancel(t))

\* A call for an ineligible id returns False and changes no task, publishes
\* no event and changes nothing else.
C29_RefusalChangesNothing ==
    \A t \in TaskIds :
        (Ineligible(t) /\ CancelCall(t)) =>
            /\ cancel_ret' = "False"
            /\ UNCHANGED <<busVars, tasks, task_order, sleepers, sched_running,
                           agentVars, engineVars>>

\* C29: cancel(task_id) for an unknown id, or for a task that is RUNNING,
\* COMPLETED, FAILED or already CANCELLED, returns false, leaves the status
\* and every other field of every task unchanged and publishes nothing.
C29_CancelNoOpWhenIneligible ==
    /\ []C29_OnlyRefusal
    /\ [][C29_RefusalChangesNothing]_vars

\* The last call of cancel was refused, and no task in the scheduler can be
\* cancelled: one runs and the other has been cancelled before.
C29_Witness ==
    /\ cancel_ret = "False"
    /\ tasks["t1"].status = "running"
    /\ tasks["t2"].status = "cancelled"

Terminal == {"completed", "failed", "cancelled"}

\* The events the scheduler has published for task t.
EventsFor(log, t) ==
    SelectSeq(log, LAMBDA e : e.source = "scheduler" /\ e.task_id = t)

\* A task.completed event naming task a has been handled: _on_task_completed
\* has run for it.
CompletionHandled(a) ==
    \E k \in 1..Len(pub_log) :
        /\ pub_log[k].topic = T_TASK_COMPLETED
        /\ pub_log[k].task_id = a
        /\ \/ ev[pub_log[k].event_id].scheduler_ran
           \/ \E d \in Dispatchers :
                 /\ Active(d)
                 /\ passes[d].event = pub_log[k]
                 /\ \E i \in 1..Len(passes[d].handlers) :
                       /\ HandlerAt(d, i).sub.handler.kind = "sched_completed"
                       /\ HandlerAt(d, i).pc # "start"

\* C2: a task whose status is COMPLETED, FAILED or CANCELLED keeps that
\* status in every step.
C2_TerminalAbsorbing ==
    [][\A t \in TaskIds :
          tasks[t].status \in Terminal => tasks'[t].status = tasks[t].status]_vars

\* C3: once a task is CANCELLED it stays CANCELLED and no step publishes an
\* event for it.
C3_CancellationPermanent ==
    [][\A t \in TaskIds :
          tasks[t].status = "cancelled" =>
              /\ tasks'[t].status = "cancelled"
              /\ EventsFor(pub_log', t) = EventsFor(pub_log, t)]_vars

\* The step ends the asyncio.sleep of the _schedule_task of task b.
DelayEnds(b) ==
    \/ b \in sleepers /\ b \notin sleepers'
    \/ \E d \in Dispatchers :
          /\ Active(d)
          /\ \E i \in 1..Len(passes[d].handlers) :
                /\ HandlerAt(d, i).pc = "sleep"
                /\ HandlerAt(d, i).cur = b
                /\ passes'[d].event = passes[d].event
                /\ passes'[d].handlers[i] # HandlerAt(d, i)

C4_Gate ==
    \A b \in TaskIds :
        (Known(tasks, b) /\ \E a \in tasks[b].depends_on : ~CompletionHandled(a))
        => (tasks[b].status \notin {"scheduled", "running"}
                /\ EventsFor(pub_log, b) = <<>>)

\* C4 as amended, the activation: the step in which the completion of A is
\* handled takes B, the first task in submission order that is PENDING, lists
\* A and has all its dependencies COMPLETED, to RUNNING with one event on its
\* target topic published (no delay) or to SCHEDULED (positive delay); and
\* the step that ends the delay takes B to RUNNING and publishes that event.
C4_Activation ==
    \A a, b \in TaskIds :
        /\ (/\ Known(tasks, a)
            /\ tasks[a].status # "completed"
            /\ tasks'[a].status = "completed"
            /\ LET ts == [tasks EXCEPT ![a].status = "completed"]
                   ready == SelectSeq(task_order,
                                      LAMBDA t : IsReadyDependent(ts, t, a))
               IN ready # <<>> /\ b = Head(ready))
           => IF tasks[b].delay_seconds > 0
              THEN tasks'[b].status = "scheduled"
              ELSE tasks'[b].status = "running"
        /\ DelayEnds(b) => tasks'[b].status = "running"
        /\ (TaskGet(tasks', b).status = "running" /\ TaskGet(tasks, b).status # "running")
           => /\ Len(EventsFor(pub_log', b)) = 1
              /\ EventsFor(pub_log, b) = <<>>
              /\ EventsFor(pub_log', b)[1].topic = tasks'[b].target_topic

C5_EligibleWhenRunning ==
    [][\A t \in TaskIds :
          (Known(tasks', t) /\ tasks'[t].status = "running"
              /\ TaskGet(tasks, t).status # "running")
          => \A dep \in tasks'[t].depends_on :
                 Known(tasks', dep) /\ tasks'[dep].status = "completed"]_vars

\* Task t is SCHEDULED and its _schedule_task is in asyncio.sleep.
InDelay(t) ==
    /\ Known(tasks, t)
    /\ tasks[t].status = "scheduled"
    /\ \/ t \in sleepers
       \/ \E d \in Dispatchers :
             /\ Active(d)
             /\ \E i \in 1..Len(passes[d].handlers) :
                   HandlerAt(d, i).pc = "sleep" /\ HandlerAt(d, i).cur = t

\* The loop is between two events, or its pass waits for a delay only: some
\* coroutine of the pass is in asyncio.sleep and every other one has finished.
LoopWaitsForDelay ==
    Active("loop") =>
        /\ \A i \in 1..Len(passes["loop"].handlers) :
              Finished(HandlerAt("loop", i)) \/ HandlerAt("loop", i).pc = "sleep"
        /\ \E i \in 1..Len(passes["loop"].handlers) :
              HandlerAt("loop", i).pc = "sleep"

\* C11: while a task waits out its delay, a zero-delay task not yet submitted
\* can be submitted (and is published in that step), and a queued
\* task.completed / task.failed event naming another task can be taken up by
\* the running dispatch loop.
C11_DelayDoesNotBlock ==
    \A t \in TaskIds :
        InDelay(t) =>
            /\ \A u \in TaskIds :
                  ~Known(tasks, u) => ENABLED Submit(u, {}, 0, TRUE)
            /\ (/\ bus_running
                /\ LoopWaitsForDelay
                /\ event_queue # <<>>
                /\ Head(event_queue).topic \in {T_TASK_COMPLETED, T_TASK_FAILED}
                /\ Head(event_queue).task_id # t)
               => ENABLED LoopDequeue

\* C13: a PENDING task that depends on a FAILED task stays PENDING in every
\* step, unless the step cancels it, and no step publishes an event for it.
C13_FailureDoesNotCascade ==
    [][\A a, b \in TaskIds :
          (/\ Known(tasks, a) /\ tasks[a].status = "failed"
           /\ Known(tasks, b) /\ a \in tasks[b].depends_on
           /\ tasks[b].status = "pending")
          => /\ tasks'[b].status \in {"pending", "cancelled"}
             /\ EventsFor(pub_log', b) = EventsFor(pub_log, b)]_vars

\* C14: the status of a submitted task changes only along the edges of the
\* state machine: to COMPLETED or FAILED only from RUNNING, to RUNNING only
\* from PENDING or SCHEDULED, to CANCELLED only from PENDING or SCHEDULED.
C14_StatusEdges ==
    [][\A t \in TaskIds :
          (Known(tasks, t) /\ tasks'[t].status # tasks[t].status)
          => /\ tasks'[t].status \in {"completed", "failed"}
                    => tasks[t].status = "running"
             /\ tasks'[t].status = "running"
                    => tasks[t].status \in {"pending", "scheduled"}
             /\ tasks'[t].status = "cancelled"
                    => tasks[t].status \in {"pending", "scheduled"}]_vars

\* No more than one event of the scheduler carries the id of a task.
C15_AtMostOne ==
    \A t \in AllTaskIds : Len(EventsFor(pub_log, t)) <= 1

\* A step publishes an event of the scheduler for t exactly when t becomes
\* RUNNING in it, and then it publishes one.
C15_EventWhenRunning ==
    \A t \in AllTaskIds :
        LET before == Len(EventsFor(pub_log, t))
            after == Len(EventsFor(pub_log', t))
            becomes_running == /\ TaskGet(tasks', t).status = "running"
                               /\ TaskGet(tasks, t).status # "running"
        IN /\ after \in {before, before + 1}
           /\ (after = before + 1) <=> becomes_running

\* C15: over submits with distinct ids, cancels and task.completed /
\* task.failed events (duplicates included) the scheduler publishes at most
\* one event carrying a given task id, and exactly one for each task that
\* reaches RUNNING: it is published in the step that makes the task RUNNING.
C15_OneEventPerTask == []C15_AtMostOne /\ [][C15_EventWhenRunning]_vars

\* The position in pub_log of the first event that satisfies P (0: none).
FirstIndex(log, P(_)) ==
    IF \E k \in 1..Len(log) : P(log[k])
    THEN CHOOSE k \in 1..Len(log) : P(log[k]) /\ \A j \in 1..(k - 1) : ~P(log[j])
    ELSE 0

\* C15 witness: t2, PENDING on t1, was activated by a task.completed event
\* for t1; a second task.completed event for t1, published like the first
\* after t1 was scheduled, has been dispatched too, and there is one event
\* for t2.
C15_Witness ==
    LET completions == {k \in 1..Len(pub_log) :
                           /\ pub_log[k].topic = T_TASK_COMPLETED
                           /\ pub_log[k].task_id = "t1"
                           /\ ev[pub_log[k].event_id].fate = "dispatched"
                           /\ ev[pub_log[k].event_id].scheduler_ran}
        scheduled == FirstIndex(pub_log,
                        LAMBDA e : e.source = "scheduler" /\ e.task_id = "t1")
    IN /\ task_order = <<"t2", "t1">>
       /\ tasks["t2"].depends_on = {"t1"}
       /\ tasks["t2"].status = "running"
       /\ Len(EventsFor(pub_log, "t2")) = 1
       /\ Cardinality(completions) = 2
       /\ scheduled > 0 /\ \A k \in completions : scheduled < k

\* ======================================================= a cascade of dependents

\* t2 and t3 depend on t1 and may have a delay; t1 and t4 depend on nothing.
CascadeDependsOn(t) == IF t \in {"t2", "t3"} THEN {"t1"} ELSE {}
CascadeDelays(t) == IF t \in {"t2", "t3"} THEN {0, 1} ELSE {0}

NextCascade ==
    \/ BusStart
    \/ LoopDequeue
    \/ \E d \in Dispatchers : PassFinish(d)
    \/ \E t \in AllTaskIds : \E delay \in CascadeDelays(t) :
          Submit(t, CascadeDependsOn(t), delay, TRUE)
    \/ \E t \in AllTaskIds : SubmitWake(t)
    \/ ReportTask(T_TASK_COMPLETED, "t1")
    \/ \E d \in Dispatchers : OnTaskCompleted(d, 1)
    \/ \E d \in Dispatchers : OnTaskCompletedWake(d, 1)

SpecCascade == InitSched /\ [][NextCascade]_vars

\* The step ends the run of _on_task_completed for a task.completed event
\* naming the known task a.
CompletionHandlingEnds(a) ==
    \E d \in Dispatchers :
        /\ Active(d)
        /\ passes[d].event.topic = T_TASK_COMPLETED
        /\ passes[d].event.task_id = a
        /\ Known(tasks, a)
        /\ passes'[d].event = passes[d].event
        /\ \E i \in 1..Len(passes[d].handlers) :
              /\ HandlerAt(d, i).sub.handler.kind = "sched_completed"
              /\ ~Finished(HandlerAt(d, i))
              /\ Finished(passes'[d].handlers[i])

\* C12: when the handling of a task.completed event for A ends, every task
\* that is PENDING, lists A in depends_on and has all its dependencies
\* COMPLETED has been activated: none is left PENDING (a task left so is
\* activated by nothing later), whatever the number of dependents, their
\* delays and the submits made meanwhile.
C12_CascadeComplete ==
    [][\A a \in AllTaskIds :
          CompletionHandlingEnds(a) =>
              \A b \in AllTaskIds :
                  Known(tasks', b) => ~IsReadyDependent(tasks', b, a)]_vars

\* ======================================================= the engine with agents

\* add_agent twice: a1 listens on "task.created" and on "task.*", so that one
\* event matches two of its subscriptions; the provider a2 names is not
\* registered.
EngineAgents ==
    [a \in AgentIds |->
        IF a = "a1"
        THEN AgentConfig("a1", TRUE, FALSE, <<T_TASK_CREATED, P_TASK_ALL>>, 50)
        ELSE AgentConfig("a2", FALSE, FALSE, <<T_TASK_CREATED>>, 50)]

\* The most subscriptions one event matches: those of EngineAgents on one topic.
MaxMatches == Len(EngineAgents["a1"].subscriptions) + Len(EngineAgents["a2"].subscriptions)

InitEngine ==
    BusInit(EngineSubscriptions(<<>>)) /\ NoScheduler /\ AgentsInit(EngineAgents)

NextEngine ==
    \/ EngineStart
    \/ EngineInitializeAgents
    \/ EngineStartEnd
    \/ EngineStop
    \/ EngineStopBus
    \/ EngineStopEnd
    \/ \E content \in BOOLEAN : Broadcast(T_TASK_CREATED, content)
    \/ LoopDequeue
    \/ LoopExit
    \/ \E d \in Dispatchers : PassFinish(d)
    \/ \E d \in Dispatchers, i \in 1..MaxMatches : AgentHandlerStart(d, i)
    \/ \E d \in Dispatchers, i \in 1..MaxMatches : AgentLockAcquired(d, i)
    \/ \E d \in Dispatchers, i \in 1..MaxMatches, o \in {"ok", "raise"} :
          AgentBackendReturn(d, i, o)
    \/ \E d \in Dispatchers, i \in 1..MaxMatches : EngineHandlerRun(d, i)

SpecEngine == InitEngine /\ [][NextEngine]_vars

\* ======================================================= a running swarm

\* test_engine_task_submission (one agent) and test_engine_multiple_agents
\* (two agents), each agent subscribed to task.created; a1 has a system
\* prompt (or none), and max_history is 1 and 2 so that think trims.
\* second: a2 has been added as well; more: the patterns a2 is subscribed to
\* besides task.created.
SwarmAgents(second, system_prompt, more) ==
    [a \in AgentIds |->
        IF a = "a1"
        THEN AgentConfig("a1", TRUE, system_prompt, <<T_TASK_CREATED>>, 1)
        ELSE IF second
        THEN AgentConfig("a2", TRUE, FALSE, <<T_TASK_CREATED>> \o more, 2)
        ELSE NotAdded]

\* The texts the backend returns.
BackendTexts == {"r1", "r2"}

InitSwarm ==
    /\ BusInit(EngineSubscriptions(<<>>))
    /\ NoScheduler
    /\ \E second \in BOOLEAN : AgentsInit(SwarmAgents(second, TRUE, <<>>))

\* engine.start(), then tasks without dependencies or delay are submitted to
\* the running engine and handled; the engine is not stopped.
NextSwarm ==
    \/ EngineStart
    \/ EngineInitializeAgents
    \/ EngineStartEnd
    \/ \E t \in TaskIds, content \in BOOLEAN :
          engine_running /\ Submit(t, {}, 0, content)
    \/ LoopDequeue
    \/ \E d \in Dispatchers : PassFinish(d)
    \/ \E d \in Dispatchers, i \in 1..MaxMatches : AgentHandlerStart(d, i)
    \/ \E d \in Dispatchers, i \in 1..MaxMatches, text \in BackendTexts :
          AgentBackendReturn(d, i, text)
    \/ \E d \in Dispatchers, i \in 1..MaxMatches : EngineHandlerRun(d, i)

SpecSwarm == InitSwarm /\ [][NextSwarm]_vars

\* The same swarm over the configurations of its agents: the provider each
\* agent names is registered or not, a1 has a system prompt or none, a2 is
\* subscribed to two patterns, and no history is long enough to be trimmed.
ConfiguredAgents(second, reg1, reg2, system_prompt) ==
    [a \in AgentIds |->
        IF a = "a1"
        THEN AgentConfig("a1", reg1, system_prompt, <<T_TASK_CREATED>>, 50)
        ELSE IF second
        THEN AgentConfig("a2", reg2, FALSE, <<T_TASK_CREATED, T_TEST>>, 50)
        ELSE NotAdded]

InitAgents ==
    /\ BusInit(EngineSubscriptions(<<>>))
    /\ NoScheduler
    /\ \E second, reg1, reg2, system_prompt \in BOOLEAN :
          AgentsInit(ConfiguredAgents(second, reg1, reg2, system_prompt))

SpecAgents == InitAgents /\ [][NextSwarm]_vars

\* A ProviderRegistry from its construction on, with register_class,
\* register_instance, create and get called in any order on any name.
InitRegistry ==
    /\ BusInit(<<>>)
    /\ NoScheduler
    /\ AgentsInit([a \in AgentIds |-> NotAdded])

NextRegistry ==
    \/ \E name \in ProviderNames : RegisterClass(name)
    \/ \E name \in ProviderNames : RegisterInstance(name)
    \/ \E name \in ProviderNames : Create(name)
    \/ \E name \in ProviderNames : RegistryGet(name)

SpecRegistry == InitRegistry /\ [][NextRegistry]_vars

\* "research.*"
P_RESEARCH_ALL == <<"research", DOT, STAR>>

\* The agents of examples/programmatic_usage.py (the assistant on
\* task.created, the LoggingAgent on agent.response.*, whose on_event prints
\* and calls Agent.on_event), or the first two agents of the configuration
\* that "swarmx init" writes (the coordinator on task.created and
\* agent.response.*, the researcher on research.* and task.created).
\* Every agent has a system prompt and a registered provider.
ExampleAgents(scaffold) ==
    [a \in AgentIds |->
        IF a = "a1"
        THEN AgentConfig("a1", TRUE, TRUE,
                         IF scaffold THEN <<T_TASK_CREATED, P_AGENT_RESPONSE_ALL>>
                         ELSE <<T_TASK_CREATED>>, 50)
        ELSE AgentConfig("a2", TRUE, TRUE,
                         IF scaffold THEN <<P_RESEARCH_ALL, T_TASK_CREATED>>
                         ELSE <<P_AGENT_RESPONSE_ALL>>, 50)]

InitExample ==
    /\ BusInit(EngineSubscriptions(<<>>))
    /\ NoScheduler
    /\ \E scaffold \in BOOLEAN : AgentsInit(ExampleAgents(scaffold))

SpecExample == InitExample /\ [][NextSwarm]_vars


\* ======================================================= the life of a swarm

\* engine.start() and engine.stop() any number of times, with the calls that
\* return at once, agent.shutdown() at any moment, and one task submitted to
\* the running engine.
NextLife ==
    \/ EngineStart
    \/ EngineStartRunning
    \/ EngineInitializeAgents
    \/ EngineStartEnd
    \/ EngineStop
    \/ EngineStopStopped
    \/ EngineStopBus
    \/ EngineStopEnd
    \/ \E a \in AgentIds : AgentShutdown(a)
    \/ engine_running /\ Submit("t1", {}, 0, TRUE)
    \/ LoopDequeue
    \/ LoopExit
    \/ \E d \in Dispatchers : PassFinish(d)
    \/ \E d \in Dispatchers, i \in 1..MaxMatches : AgentHandlerStart(d, i)
    \/ \E d \in Dispatchers, i \in 1..MaxMatches : AgentBackendReturn(d, i, "r1")
    \/ \E d \in Dispatchers, i \in 1..MaxMatches : EngineHandlerRun(d, i)

\* Agents without a system prompt: a start() after a stop() initializes the
\* agents again, and every initialize() would add the prompt once more.
\* a2 is subscribed to two patterns, as the agent of test_agent_shutdown is.
InitLife ==
    /\ BusInit(EngineSubscriptions(<<>>))
    /\ NoScheduler
    /\ \E second \in BOOLEAN : AgentsInit(SwarmAgents(second, FALSE, <<T_TEST>>))

SpecLife == InitLife /\ [][NextLife]_vars

\* A swarm that is started and stopped, with one task submitted while the
\* engine runs and stop() has not been called: every agent is subscribed to
\* task.created when the task's event is published.
NextStop ==
    \/ EngineStart
    \/ EngineInitializeAgents
    \/ EngineStartEnd
    \/ EngineStop
    \/ EngineStopBus
    \/ EngineStopEnd
    \/ engine_running /\ engine_pc = "idle" /\ Submit("t1", {}, 0, TRUE)
    \/ LoopDequeue
    \/ LoopExit
    \/ \E d \in Dispatchers : PassFinish(d)
    \/ \E d \in Dispatchers, i \in 1..MaxMatches : AgentHandlerStart(d, i)
    \/ \E d \in Dispatchers, i \in 1..MaxMatches : AgentBackendReturn(d, i, "r1")
    \/ \E d \in Dispatchers, i \in 1..MaxMatches : EngineHandlerRun(d, i)

SpecStop == InitLife /\ [][NextStop]_vars

\* A swarm on a bus with a small queue, EventBus(max_queue_size=QueueCap).
\* Every publish of the scheduler and of an agent is the blocking one: while
\* the queue is full, submit_task waits in the put of _schedule_task and an
\* agent waits in the put of emit, after its backend has returned; each goes
\* on when the queue has space.
SubmitPut(maxsize, t, content) ==
    /\ engine_running
    /\ ~Full(event_queue, maxsize)
    /\ Submit(t, {}, 0, content)

AgentBackendReturnPut(maxsize, d, i, text) ==
    /\ ~Full(event_queue, maxsize)
    /\ AgentBackendReturn(d, i, text)

NextSwarmCap ==
    \/ EngineStart
    \/ EngineInitializeAgents
    \/ EngineStartEnd
    \/ \E t \in BatchIds, content \in BOOLEAN : SubmitPut(QueueCap, t, content)
    \/ LoopDequeue
    \/ \E d \in Dispatchers : PassFinish(d)
    \/ \E d \in Dispatchers, i \in 1..MaxMatches : AgentHandlerStart(d, i)
    \/ \E d \in Dispatchers, i \in 1..MaxMatches, text \in BackendTexts :
          AgentBackendReturnPut(QueueCap, d, i, text)
    \/ \E d \in Dispatchers, i \in 1..MaxMatches : EngineHandlerRun(d, i)

SpecSwarmCap == InitLife /\ [][NextSwarmCap]_vars


\* ======================================================= properties: agents

\* The coroutines of agent a that are inside on_event (awaiting the backend).
InProgress(a) ==
    {c \in Dispatchers \X (1..MaxMatches) :
        /\ IsCall(c[1], c[2], "agent")
        /\ HandlerAt(c[1], c[2]).sub.handler.owner = a
        /\ HandlerAt(c[1], c[2]).pc = "backend"}

\* The coroutines of agent a whose handling has not begun.
Waiting(a) ==
    {c \in Dispatchers \X (1..MaxMatches) :
        /\ IsCall(c[1], c[2], "agent")
        /\ HandlerAt(c[1], c[2]).sub.handler.owner = a
        /\ HandlerAt(c[1], c[2]).pc \in {"start", "lockwait"}}

C6_AtMostOne ==
    \A a \in AgentIds :
        /\ Cardinality(InProgress(a)) <= 1
        /\ InProgress(a) # {} =>
              processing_lock[a].locked /\ processing_lock[a].owner \in InProgress(a)

\* A handling of a begins in this step: a waiting coroutine leaves Waiting.
C6_BeginsAfterEnd ==
    \A a \in AgentIds :
        (\E c \in Waiting(a) : passes'[c[1]] # NoPass /\ c \notin Waiting(a)')
            => InProgress(a) = {}

\* C6: for every agent at most one invocation of on_event is in progress at
\* any time (also when one event matches several of its subscriptions, and
\* across the passes of the loop and of stop), and a handling begins only
\* when no other handling of that agent is in progress.
C6_PerAgentSerialization == []C6_AtMostOne /\ [][C6_BeginsAfterEnd]_vars

\* C6 witness: one event matched two subscriptions of a1; the first handling
\* has finished with its response published, the second one, which waited
\* for the lock, is now in progress.
C6_Witness ==
    \E d \in Dispatchers :
        /\ Len(passes[d].handlers) = 2
        /\ \A i \in 1..2 : IsCall(d, i, "agent")
                             /\ HandlerAt(d, i).sub.handler.owner = "a1"
        /\ HandlerAt(d, 1).pc = "done"
        /\ HandlerAt(d, 2).pc = "backend"
        /\ backend_calls["a1"] = 2
        /\ message_history["a1"] = <<"user", "assistant", "user">>

\* The handling of an event by a ends in this step after on_event raised:
\* the step publishes the agent.error event of a.
FaultHandled(a) ==
    /\ Len(pub_log') = Len(pub_log) + 1
    /\ pub_log'[Len(pub_log')].topic = T_AGENT_ERROR
    /\ pub_log'[Len(pub_log')].source = a

\* C7: whenever on_event raises during the handling of an event, the agent's
\* state is IDLE once that handling has finished.
C7_SelfHealsAfterFault ==
    [][\A a \in AgentIds : FaultHandled(a) => agent_state'[a] = "idle"]_vars

\* No handling of agent a is under way.
Idle(a) == InProgress(a) = {}

\* C25: after any number of think cycles the history holds each system
\* message exactly once (one when the agent has a system prompt), followed by
\* no more than max_history non-system messages.
C25_HistoryTrimmed ==
    \A a \in AgentIds :
        agent_cfg[a].added /\ agent_state[a] # "created" /\ Idle(a) =>
            LET h == message_history[a]
                system == SelectSeq(h, LAMBDA m : m = "system")
                others == SelectSeq(h, LAMBDA m : m # "system")
            IN /\ Len(system) = (IF agent_cfg[a].system_prompt THEN 1 ELSE 0)
               /\ h = system \o others
               /\ Len(others) <= agent_cfg[a].max_history

\* C24: when on_event raises (a backend failure coming out of think), the
\* agent emits exactly one event, on agent.error, with its agent id, the
\* topic of the event it was handling and the fixed text "Processing failed"
\* (not the exception's text); it emits no response, and the fault does not
\* reach the dispatch boundary: the handler returns normally and the bus
\* counts no error.
C24_FaultBecomesErrorEvent ==
    [][\A d \in Dispatchers, i \in 1..MaxMatches :
          AgentBackendReturn(d, i, "raise") =>
              LET a == HandlerAt(d, i).sub.handler.owner
                  trigger == passes[d].event
                  e == pub_log'[Len(pub_log')]
              IN /\ Len(pub_log') = Len(pub_log) + 1
                 /\ e.topic = T_AGENT_ERROR
                 /\ e.source = a
                 /\ e.payload.agent_id = a
                 /\ e.payload.event_topic = trigger.topic
                 /\ e.payload.error = "Processing failed"
                 /\ e.payload.error # BackendFailure
                 /\ stats'.errors = stats.errors
                 /\ ev'[trigger.event_id].raised = ev[trigger.event_id].raised
                 /\ passes'[d].handlers[i].pc = "done"]_vars

\* An agent.error event of agent a1 has been published for a handled
\* task.created event.
C24_Witness ==
    \E i \in DOMAIN pub_log :
        /\ pub_log[i].topic = T_AGENT_ERROR
        /\ pub_log[i].payload.agent_id = "a1"
        /\ pub_log[i].payload.event_topic = T_TASK_CREATED

\* The events of submitted tasks, in the order of their publication; those of
\* tasks with a content.
TaskEvents == SelectSeq(pub_log, LAMBDA e : e.source = "scheduler")
ContentTaskEvents == SelectSeq(TaskEvents, LAMBDA e : e.content)

\* The response events of agent a to the event id.
Responses(a, id) ==
    SelectSeq(pub_log, LAMBDA e : /\ e.topic = ResponseTopic(agent_cfg[a].name)
                                 /\ e.source = a
                                 /\ e.payload.source_event = id)

\* Nothing is queued and no pass is under way.
Quiet == event_queue = <<>> /\ \A d \in Dispatchers : ~Active(d)

\* The engine runs with a1 as its only agent.
OnlyAgent == engine_running /\ ~agent_cfg["a2"].added

\* Agent a answers the task events es: never more than one response to an
\* event and never more backend calls than events, and when everything has
\* been handled, one backend call and one response for each event.
Answers(a, es) ==
    /\ backend_calls[a] <= Len(es)
    /\ \A k \in DOMAIN es : Len(Responses(a, es[k].event_id)) <= 1
    /\ Quiet =>
          /\ backend_calls[a] = Len(es)
          /\ \A k \in DOMAIN es : Len(Responses(a, es[k].event_id)) = 1

\* The event a backend call's return publishes is on the agent's response
\* topic and carries the returned text and the id of the event handled.
ResponseCarries ==
    \A d \in Dispatchers, i \in 1..MaxMatches, text \in BackendTexts :
        AgentBackendReturn(d, i, text) =>
            LET a == HandlerAt(d, i).sub.handler.owner
                e == pub_log'[Len(pub_log')]
            IN /\ Len(pub_log') = Len(pub_log) + 1
               /\ e.topic = ResponseTopic(agent_cfg[a].name)
               /\ e.payload.text = text
               /\ e.payload.source_event = passes[d].event.event_id
               /\ passes[d].event \in {TaskEvents[k] : k \in DOMAIN TaskEvents}

\* C26 as stated: for every task submitted to the running engine with one
\* agent subscribed to exactly task.created, the backend is called exactly
\* once and exactly one response event is published, with the returned text
\* and the id of the task's event.
C26_OneResponsePerTask ==
    /\ [](OnlyAgent => Answers("a1", TaskEvents))
    /\ [][ResponseCarries]_vars

\* C26, for tasks with a non-empty content: exactly one backend call and one
\* response event per task, with the returned text and the id of the task's
\* event; a task without content leads to no backend call.
C26_OneResponsePerContentTask ==
    /\ [](OnlyAgent => Answers("a1", ContentTaskEvents))
    /\ [][ResponseCarries]_vars

\* With a1 as the only agent, a task with a content has been handled to the
\* end: the response to its event is in the log and nothing is under way.
C26_Witness ==
    /\ OnlyAgent /\ Quiet
    /\ ContentTaskEvents # <<>>
    /\ Len(Responses("a1", ContentTaskEvents[1].event_id)) = 1
    /\ backend_calls["a1"] = 1

\* The engine runs with both agents.
BothAgents == engine_running /\ agent_cfg["a2"].added

\* The response events that name the event id.
AllResponses(id) ==
    SelectSeq(pub_log, LAMBDA e : e.payload.source_event = id /\ e.source \in AgentIds)

\* Both agents answer the task events es, and once everything has been
\* handled an event has exactly two responses, one of each agent.
BothAnswer(es) ==
    /\ \A a \in AgentIds : Answers(a, es)
    /\ Quiet => \A k \in DOMAIN es : Len(AllResponses(es[k].event_id)) = 2

\* The step is one of the handling of an event by agent a.
HandlingStep(a) ==
    \E d \in Dispatchers, i \in 1..MaxMatches :
        /\ IsCall(d, i, "agent")
        /\ HandlerAt(d, i).sub.handler.owner = a
        /\ \/ AgentHandlerStart(d, i)
           \/ \E text \in BackendTexts : AgentBackendReturn(d, i, text)

\* An agent's history and state change only in steps of its own handling,
\* and a step of another agent's handling leaves them as they were.
OwnHandlingOnly ==
    \A a \in AgentIds :
        /\ (engine_running /\ (message_history'[a] # message_history[a]
                                \/ agent_state'[a] # agent_state[a]))
               => HandlingStep(a)
        /\ \A b \in AgentIds \ {a} :
               HandlingStep(b) => /\ message_history'[a] = message_history[a]
                                  /\ agent_state'[a] = agent_state[a]

\* C27 as stated: with two agents subscribed to task.created, every submitted
\* task is handled once by each agent and gets exactly two responses, one per
\* agent; an agent's history and state change only through its own handling.
C27_EachAgentAnswersOnce ==
    /\ [](BothAgents => BothAnswer(TaskEvents))
    /\ [][OwnHandlingOnly]_vars

\* C27, for tasks with a non-empty content.
C27_EachAgentAnswersContentOnce ==
    /\ [](BothAgents => BothAnswer(ContentTaskEvents))
    /\ [][OwnHandlingOnly]_vars

\* With both agents, a task with a content has been handled to the end: each
\* agent has called its backend and both responses are in the log.
C27_Witness ==
    /\ BothAgents /\ Quiet
    /\ ContentTaskEvents # <<>>
    /\ \A a \in AgentIds :
          /\ Len(Responses(a, ContentTaskEvents[1].event_id)) = 1
          /\ backend_calls[a] >= 1
          /\ message_history[a] # <<>>

\* The agents the engine holds.
Added == {a \in AgentIds : agent_cfg[a].added}

\* start(): the agents are initialized while the router runs and the
\* scheduler does not yet, every agent is initialized in that step, and the
\* scheduler starts only in the step after it, the last one of start().
StartOrder ==
    /\ EngineInitializeAgents =>
          /\ bus_running /\ dispatch_task # "none"
          /\ ~sched_running /\ ~sched_running'
          /\ \A a \in Added :
                /\ agent_state'[a] = "idle"
                /\ Len(RegistrationsOf(a)') = Len(agent_cfg[a].subscriptions)
    /\ (~sched_running /\ sched_running') =>
          /\ engine_pc = "start_end" /\ engine_pc' = "idle"
          /\ bus_running
          /\ engine_running'

\* stop(): every agent is shut down while the scheduler and the router still
\* run; the scheduler stops after that, and the router not before it.
StopOrder ==
    /\ EngineStop =>
          /\ \A a \in Added : agent_state'[a] = "shutdown" /\ RegistrationsOf(a)' = <<>>
          /\ sched_running /\ sched_running'
          /\ bus_running /\ bus_running'
    /\ (sched_running /\ ~sched_running') =>
          /\ \A a \in Added : RegistrationsOf(a) = <<>>
          /\ bus_running
    /\ (bus_running /\ ~bus_running') =>
          /\ \A a \in Added : RegistrationsOf(a) = <<>>
          /\ ~sched_running'

\* start() on a running engine and stop() on a stopped one change nothing.
NothingChanges ==
    (EngineStartRunning \/ EngineStopStopped) => UNCHANGED vars

\* No agent holds one of its patterns twice.
SubscribedOnce ==
    \A a \in Added : Len(RegistrationsOf(a)) <= Len(agent_cfg[a].subscriptions)

OnePerPattern(a) ==
    LET regs == RegistrationsOf(a)
        subs == agent_cfg[a].subscriptions
    IN /\ Len(regs) = Len(subs)
       /\ \A k \in 1..Len(subs) :
             Cardinality({j \in 1..Len(regs) : regs[j].topic_pattern = subs[k]}) = 1

\* The step in which start() runs initialize() of every agent: an agent
\* whose provider name is registered ends IDLE with the provider bound, the
\* system prompt (if any) as its whole history and one registration per
\* pattern; an agent whose provider name is not registered has failed before
\* reaching IDLE, with no provider, no registration and its history as before.
C31_InitializeStep ==
    EngineInitializeAgents =>
        \A a \in Added :
            IF agent_cfg[a].registered
            THEN /\ agent_state'[a] = "idle"
                 /\ agent_provider'[a]
                 /\ message_history'[a] =
                        IF agent_cfg[a].system_prompt THEN <<"system">> ELSE <<>>
                 /\ OnePerPattern(a)'
            ELSE /\ agent_state'[a] = "initializing"
                 /\ ~agent_provider'[a]
                 /\ RegistrationsOf(a)' = <<>>
                 /\ message_history'[a] = message_history[a]

\* C31: with a registered backend name, initialize() ends with state IDLE,
\* the backend bound, the history equal to exactly the system prompt message
\* (or empty when none is configured) and exactly one subscription per
\* configured pattern; with an unregistered name it fails and registers no
\* subscription and adds nothing to the history.
C31_InitializeOutcome == [][C31_InitializeStep]_vars

\* Both agents have been initialized: a1, with a system prompt and a
\* registered provider, is ready; a2, whose provider is not registered, has
\* failed and holds nothing.
C31_Witness ==
    /\ engine_pc = "start_end"
    /\ Added = AgentIds
    /\ agent_cfg["a1"].registered /\ agent_cfg["a1"].system_prompt
    /\ message_history["a1"] = <<"system">> /\ OnePerPattern("a1")
    /\ ~agent_cfg["a2"].registered
    /\ agent_state["a2"] = "initializing" /\ RegistrationsOf("a2") = <<>>

\* A step in which _handle_event of agent a takes the lock for handler i of
\* pass d and runs on_event (at once, or after its wait for the lock).
Handles(a, d, i) ==
    /\ AgentHandlerStart(d, i) \/ AgentLockAcquired(d, i)
    /\ HandlerAt(d, i).sub.handler.owner = a
    /\ passes'[d].handlers[i].pc # "lockwait"

\* C32: when a delivered event has neither a non-empty content nor a
\* non-empty message field, the default handling calls the backend zero
\* times, publishes no event, leaves the message history unchanged, and the
\* agent's state is IDLE afterwards.
C32_EmptyContentIgnored ==
    [][\A a \in AgentIds, d \in Dispatchers, i \in 1..MaxMatches :
          (Handles(a, d, i) /\ ~passes[d].event.content) =>
              /\ backend_calls' = backend_calls
              /\ message_history' = message_history
              /\ pub_log' = pub_log /\ event_queue' = event_queue
              /\ stats' = stats
              /\ agent_state'[a] = "idle"
              /\ passes'[d].handlers[i].pc = "done"]_vars

\* An event without content has been delivered to both registrations of a1
\* and its pass has ended: no backend call was made and no event followed it.
C32_Witness ==
    /\ Len(pub_log) = 1
    /\ pub_log[1].topic = T_TASK_CREATED /\ ~pub_log[1].content
    /\ ev[1].fate = "dispatched" /\ ev[1].matched >= 2
    /\ backend_calls["a1"] = 0
    /\ agent_state["a1"] = "idle"

\* The history is system messages first and then user and assistant messages
\* in turn: every user message but the last is followed by an assistant
\* message (the answer to the last one may still be awaited), and every
\* assistant message follows a user message.
Alternating(h) ==
    \A k \in 1..Len(h) :
        /\ h[k] = "system" => \A j \in 1..(k - 1) : h[j] = "system"
        /\ h[k] = "user" => (k = Len(h) \/ h[k + 1] = "assistant")
        /\ h[k] = "assistant" => (k > 1 /\ h[k - 1] = "user")

\* C33: when events are delivered through the router and no trimming has
\* occurred, the agent's history is the system prompt followed by strictly
\* alternating user/assistant pairs: every user message appended for an
\* event is immediately followed by the assistant response to that event and
\* never by another user message.
C33_NoInterleavedHistory ==
    \A a \in AgentIds : Alternating(message_history[a])

\* stop() has returned after a run in which the task was submitted.
StopReturned == ~engine_running /\ engine_pc = "idle" /\ Known(tasks, "t1")

\* The task's event has been delivered to agent a: its handler has run
\* on_event for it, which calls the backend.
DeliveredTo(a) == backend_calls[a] >= 1

\* C35: every task event that was published before engine.stop() was called
\* is delivered to each agent that was subscribed to its topic when it was
\* published, before stop() returns.
C35_NoEventLostAtStop ==
    StopReturned => \A a \in Added : DeliveredTo(a)

\* A step of the dispatching: the loop takes an event, a handler of the pass
\* under way goes on, or the pass ends.
DispatchStep ==
    \/ LoopDequeue
    \/ \E d \in Dispatchers : PassFinish(d)
    \/ \E d \in Dispatchers, i \in 1..MaxMatches : AgentHandlerStart(d, i)
    \/ \E d \in Dispatchers, i \in 1..MaxMatches, text \in BackendTexts :
          AgentBackendReturnPut(QueueCap, d, i, text)
    \/ \E d \in Dispatchers, i \in 1..MaxMatches : EngineHandlerRun(d, i)

\* C36: while the router is running, every event that a publisher is trying
\* to enqueue is eventually enqueued and every enqueued event is eventually
\* dispatched, for every queue capacity >= 1, also when handlers call the
\* blocking publish during a dispatch pass. As a property of states: while
\* the router runs and an event is queued or being handled, the dispatching
\* can take a step (states at the bound of the event ids left aside).
C36_DispatchNeverDeadlocks ==
    (/\ bus_running
     /\ event_queue # <<>> \/ Active("loop")
     /\ next_event_id < MaxEventIds) => ENABLED DispatchStep

\* Agent a is ready: IDLE, with its provider bound and its configured
\* patterns registered.
Ready(a) == agent_state[a] = "idle" /\ agent_provider[a] /\ OnePerPattern(a)

\* C38: whenever engine.start() has returned and the engine reports running,
\* every agent of the engine is IDLE with its backend bound and its
\* configured subscriptions registered, also when the backend name of some
\* agent is not registered. Checked at the step in which start() returns.
C38_AllAgentsReadyAfterStart ==
    [][EngineStartEnd => (engine_running' /\ \A a \in Added : Ready(a)')]_vars

\* The number of events between a published event and the task event it goes
\* back to, along "source_event": 0 for an event that answers no event.
RECURSIVE Depth(_)
Depth(id) ==
    IF pub_log[id].payload.source_event = 0
    THEN 0
    ELSE 1 + Depth(pub_log[id].payload.source_event)

\* C39: after finitely many task submissions the system comes to rest (empty
\* queue, every agent IDLE, nothing published any more), for every
\* configuration of the agents. An event is routed by its topic alone and a
\* response's topic names the agent that emitted it, so a chain of answers
\* that comes to an end holds each agent's response topic at most once: no
\* published event lies deeper than the number of agents.
C39_ResponseChainsEnd ==
    \A id \in 1..Len(pub_log) : Depth(id) <= Cardinality(Added)

\* C40: every backend name the registry reports as available (in available,
\* in the providers list of the status snapshot, or by the "in" test) can be
\* retrieved with get(name) without a not-found error, in every state that
\* register_class, register_instance and create lead to.
C40_AvailableResolvable ==
    \A name \in ProviderNames :
        (\/ name \in Available(provider_registry)
         \/ name \in StatusProviders(provider_registry)
         \/ Contains(provider_registry, name))
            => Get(provider_registry, name) = "ok"

\* The ids that hold a registration, and the number of all registrations.
Subscribers == {Registrations[k].subscriber_id : k \in 1..Len(Registrations)}

Held == SubscriptionCount(subscriptions, global_subscriptions)

\* A step that is shutdown() of agent a: the agent holds no registration
\* afterwards; the count drops by the number of the agent's configured
\* patterns when the agent holds its registrations, and by zero when it holds
\* none (a repeated shutdown, or one before initialize); the registrations
\* of every other id are as before.
C30_ShutdownStep ==
    \A a \in Added :
        AgentShutdown(a) =>
            /\ RegistrationsOf(a)' = <<>>
            /\ RegistrationsOf(a) # <<>> =>
                  Held' = Held - Len(agent_cfg[a].subscriptions)
            /\ RegistrationsOf(a) = <<>> => Held' = Held
            /\ \A sid \in Subscribers \ {a} :
                  RegistrationsOf(sid)' = RegistrationsOf(sid)

\* The registrations of an agent change only when the engine initializes the
\* agents and when the agent is shut down, by itself or by stop(): between
\* its initialize() and its shutdown() the agent holds its configured patterns.
C30_HeldUntilShutdown ==
    \A a \in Added :
        RegistrationsOf(a)' # RegistrationsOf(a) =>
            \/ EngineInitializeAgents /\ Len(RegistrationsOf(a)') = Len(agent_cfg[a].subscriptions)
            \/ (AgentShutdown(a) \/ EngineStop) /\ RegistrationsOf(a)' = <<>>

\* shutdown() can be called on every agent in every state: it has no
\* failing outcome.
C30_NeverFails == \A a \in Added : ENABLED AgentShutdown(a)

\* C30: after shutdown() the router holds no subscription under the agent's
\* id (the subscription count drops by exactly the number of the agent's
\* configured patterns), the subscriptions of all other subscribers are
\* unchanged, and a repeated shutdown() removes zero subscriptions and
\* raises no error.
C30_ShutdownReleasesSubscriptions ==
    /\ []C30_NeverFails
    /\ [][C30_ShutdownStep /\ C30_HeldUntilShutdown]_vars

\* Agent a2, which was subscribed to two patterns, has been shut down by its
\* own shutdown() while the engine runs; a1 still holds its registration.
C30_Witness ==
    /\ engine_running /\ bus_running /\ engine_pc = "idle"
    /\ Added = AgentIds
    /\ agent_state["a2"] = "shutdown"
    /\ RegistrationsOf("a2") = <<>>
    /\ Len(RegistrationsOf("a1")) = 1

\* C8: once shutdown() has set an agent's state to SHUTDOWN, no later step
\* changes the state away from SHUTDOWN or calls the backend for that agent.
C8_ShutdownTerminal ==
    [][\A a \in AgentIds :
          agent_state[a] = "shutdown" =>
              /\ agent_state'[a] = "shutdown"
              /\ backend_calls'[a] = backend_calls[a]]_vars

====
